---------------------------- MODULE Spec2Model ----------------------------
(***************************************************************************)
(* Student information management system: the record store.               *)
(*                                                                         *)
(*   Validator       src/src/utils/validator.py                            *)
(*   Student         src/src/models/student.py                             *)
(*   DataManager     src/src/managers/data_manager.py                      *)
(*   StudentManager  src/src/managers/student_manager.py                   *)
(*                                                                         *)
(* Python strings are sequences of one-character strings, so that the     *)
(* validators' length tests, regular expressions and strip() are computed *)
(* on the characters.  The Han characters are not ASCII: "U5F20" and      *)
(* "U4E09" each stand for one character.  A gender is compared as a whole *)
(* and never looked into; the two accepted literals are written "nan" and *)
(* "nv".                                                                   *)
(***************************************************************************)
EXTENDS Integers, Sequences, FiniteSets, TLC

VARIABLES students, file, pc, call, pre, mtime, backups, clock, taken, record,
          strangers

vars == <<students, file, pc, call, pre, mtime, backups, clock, taken, record,
          strangers>>

(***************************************************************************)
(* Characters and the regular expressions of validator.py                 *)
(***************************************************************************)
Digits == {"0", "1", "2", "3", "4", "5", "6", "7", "8", "9"}

Lower == {"a", "b", "c", "d", "e", "f", "g", "h", "i", "j", "k", "l", "m",
          "n", "o", "p", "q", "r", "s", "t", "u", "v", "w", "x", "y", "z"}

Upper == {"A", "B", "C", "D", "E", "F", "G", "H", "I", "J", "K", "L", "M",
          "N", "O", "P", "Q", "R", "S", "T", "U", "V", "W", "X", "Y", "Z"}

Letters == Lower \cup Upper

\* [一-龥]: two representatives
Han == {"U5F20", "U4E09"}

\* \s, and what str.strip() removes
Whitespace == {" ", "\t", "\n"}

\* str.strip()
RECURSIVE LStrip(_)
LStrip(s) ==
    IF s # <<>> /\ Head(s) \in Whitespace THEN LStrip(Tail(s)) ELSE s

RECURSIVE RStrip(_)
RStrip(s) ==
    IF s # <<>> /\ s[Len(s)] \in Whitespace
    THEN RStrip(SubSeq(s, 1, Len(s) - 1))
    ELSE s

Strip(s) == RStrip(LStrip(s))

AllIn(s, C) == \A i \in 1..Len(s) : s[i] \in C

\* Python's $ matches at the end and just before a final newline
BeforeDollar(s) ==
    IF s # <<>> /\ s[Len(s)] = "\n" THEN {s, SubSeq(s, 1, Len(s) - 1)} ELSE {s}

\* re.match(r'^[0-9]+$', s)
MatchDigits(s) == \E u \in BeforeDollar(s) : u # <<>> /\ AllIn(u, Digits)

\* re.match(r'^[a-zA-Z0-9_]{3,20}$', s)
MatchManagerId(s) ==
    \E u \in BeforeDollar(s) :
        /\ Len(u) >= 3
        /\ Len(u) <= 20
        /\ AllIn(u, Letters \cup Digits \cup {"_"})

\* re.match(r'^[一-龥]{2,10}$', s)
MatchChineseName(s) ==
    \E u \in BeforeDollar(s) : Len(u) >= 2 /\ Len(u) <= 10 /\ AllIn(u, Han)

\* re.match(r'^[a-zA-Z]+(\s[a-zA-Z]+)*$', s): words of letters, one
\* whitespace character between two words
MatchEnglishName(s) ==
    \E u \in BeforeDollar(s) :
        /\ u # <<>>
        /\ AllIn(u, Letters \cup Whitespace)
        /\ u[1] \in Letters
        /\ u[Len(u)] \in Letters
        /\ \A i \in 1..(Len(u) - 1) :
               ~(u[i] \in Whitespace /\ u[i + 1] \in Whitespace)

\* re.match(r'^[一-龥a-zA-Z0-9\s\-_]+$', s)
MatchClassName(s) ==
    s # <<>> /\ AllIn(s, Han \cup Letters \cup Digits \cup Whitespace \cup {"-", "_"})

\* re.match(r'^1[3-9]\d{9}$', s)
MatchPhone(s) ==
    \E u \in BeforeDollar(s) :
        /\ Len(u) = 11
        /\ u[1] = "1"
        /\ u[2] \in {"3", "4", "5", "6", "7", "8", "9"}
        /\ \A i \in 3..11 : u[i] \in Digits

\* re.match(r'^[a-zA-Z0-9._%+-]+@[a-zA-Z0-9.-]+\.[a-zA-Z]{2,}$', s)
MatchEmail(s) ==
    \E u \in BeforeDollar(s) :
        \E at \in 1..Len(u) : \E dot \in 1..Len(u) :
            /\ u[at] = "@"
            /\ u[dot] = "."
            /\ at > 1
            /\ dot > at + 1
            /\ Len(u) - dot >= 2
            /\ \A i \in 1..(at - 1) :
                   u[i] \in Letters \cup Digits \cup {".", "_", "%", "+", "-"}
            /\ \A i \in (at + 1)..(dot - 1) :
                   u[i] \in Letters \cup Digits \cup {".", "-"}
            /\ \A i \in (dot + 1)..Len(u) : u[i] \in Letters

(***************************************************************************)
(* Validator: each rule is TRUE when the value is accepted                *)
(***************************************************************************)
MinIdLen == 6
MaxIdLen == 20
MinNameLen == 2
MaxNameLen == 10
MinAge == 15
AgeLimit == 50
MaxClassNameLen == 20
MaxContactLen == 50

validate_student_id(student_id) ==
    /\ Strip(student_id) # <<>>
    /\ ~(Len(student_id) < MinIdLen \/ Len(student_id) > MaxIdLen)
    /\ MatchDigits(student_id)

validate_name(name) ==
    LET n == Strip(name) IN
    /\ n # <<>>
    /\ ~(Len(n) < MinNameLen \/ Len(n) > MaxNameLen)
    /\ (MatchChineseName(n) \/ MatchEnglishName(n))

validate_gender(gender) == gender \in {"nan", "nv"}

validate_age(age) == ~(age < MinAge \/ age >= AgeLimit)

validate_class_name(class_name) ==
    LET c == Strip(class_name) IN
    /\ c # <<>>
    /\ ~(Len(c) > MaxClassNameLen)
    /\ MatchClassName(c)

validate_contact(contact) ==
    LET c == Strip(contact) IN
    /\ c # <<>>
    /\ ~(Len(c) > MaxContactLen)
    /\ (MatchPhone(c) \/ MatchEmail(c))


(***************************************************************************)
(* Student (models/student.py)                                            *)
(***************************************************************************)
StudentFields == {"student_id", "name", "gender", "age", "class_name", "contact"}

\* faulty variant of Student: the values are kept as passed
Student_unstripped(a) ==
    IF validate_student_id(a.student_id) /\ validate_name(a.name)
       /\ validate_gender(a.gender) /\ validate_age(a.age)
       /\ validate_class_name(a.class_name) /\ validate_contact(a.contact)
    THEN [ok |-> TRUE, student |-> a]
    ELSE [ok |-> FALSE, field |-> "student_id"]

\* Student.__init__: the six _validate_* calls in order; the first rejection
\* raises DataValidationError(field)
Student(a) ==
    IF ~validate_student_id(a.student_id) THEN [ok |-> FALSE, field |-> "student_id"]
    ELSE IF ~validate_name(a.name) THEN [ok |-> FALSE, field |-> "name"]
    ELSE IF ~validate_gender(a.gender) THEN [ok |-> FALSE, field |-> "gender"]
    ELSE IF ~validate_age(a.age) THEN [ok |-> FALSE, field |-> "age"]
    ELSE IF ~validate_class_name(a.class_name) THEN [ok |-> FALSE, field |-> "class_name"]
    ELSE IF ~validate_contact(a.contact) THEN [ok |-> FALSE, field |-> "contact"]
    ELSE [ok |-> TRUE,
          student |-> [student_id |-> a.student_id,
                       name |-> Strip(a.name),
                       gender |-> a.gender,
                       age |-> a.age,
                       class_name |-> Strip(a.class_name),
                       contact |-> Strip(a.contact)]]

to_dict(student) ==
    [student_id |-> student.student_id,
     name |-> student.name,
     gender |-> student.gender,
     age |-> student.age,
     class_name |-> student.class_name,
     contact |-> student.contact]

\* the fields in the order Student.__init__ validates them
FieldOrder == <<"student_id", "name", "gender", "age", "class_name", "contact">>

validate_field(field, value) ==
    CASE field = "student_id" -> validate_student_id(value)
      [] field = "name" -> validate_name(value)
      [] field = "gender" -> validate_gender(value)
      [] field = "age" -> validate_age(value)
      [] field = "class_name" -> validate_class_name(value)
      [] field = "contact" -> validate_contact(value)

\* Student.from_dict: cls(student_id=data.get('student_id'), ...).  data.get
\* gives None for a field the mapping lacks, and no validator accepts None;
\* keys that are not fields are not looked at.
from_dict(data) ==
    IF StudentFields \subseteq DOMAIN data
    THEN Student(data)
    ELSE LET bad == {i \in 1..Len(FieldOrder) :
                        \/ FieldOrder[i] \notin DOMAIN data
                        \/ ~validate_field(FieldOrder[i], data[FieldOrder[i]])}
         IN  [ok |-> FALSE,
              field |-> FieldOrder[CHOOSE i \in bad : \A j \in bad : i <= j]]

\* One keyword argument of update_info / update_student: the field name, whether
\* the value is None, and the value (str for the string fields, int for age).
Kw(field, none, str, int) == [field |-> field, none |-> none, str |-> str, int |-> int]

\* faulty variant of SetField: the value is committed without its validator
SetField_unvalidated(student, kw) ==
    [ok |-> TRUE,
     student |-> [student EXCEPT ![kw.field] =
                     IF kw.field \in {"name", "class_name", "contact"} THEN Strip(kw.str)
                     ELSE IF kw.field = "age" THEN kw.int ELSE kw.str]]

\* The property setters: validate, then commit the (stripped) value
SetField(student, kw) ==
    CASE kw.field = "name" ->
           IF validate_name(kw.str)
           THEN [ok |-> TRUE, student |-> [student EXCEPT !.name = Strip(kw.str)]]
           ELSE [ok |-> FALSE, student |-> student]
      [] kw.field = "gender" ->
           IF validate_gender(kw.str)
           THEN [ok |-> TRUE, student |-> [student EXCEPT !.gender = kw.str]]
           ELSE [ok |-> FALSE, student |-> student]
      [] kw.field = "age" ->
           IF validate_age(kw.int)
           THEN [ok |-> TRUE, student |-> [student EXCEPT !.age = kw.int]]
           ELSE [ok |-> FALSE, student |-> student]
      [] kw.field = "class_name" ->
           IF validate_class_name(kw.str)
           THEN [ok |-> TRUE, student |-> [student EXCEPT !.class_name = Strip(kw.str)]]
           ELSE [ok |-> FALSE, student |-> student]
      [] kw.field = "contact" ->
           IF validate_contact(kw.str)
           THEN [ok |-> TRUE, student |-> [student EXCEPT !.contact = Strip(kw.str)]]
           ELSE [ok |-> FALSE, student |-> student]

AllowedFields == {"name", "gender", "age", "class_name", "contact"}

\* faulty variant of update_info: only the first keyword argument is applied
update_info_first_only(student, kwargs, has_changes) ==
    IF kwargs = <<>> \/ Head(kwargs).field \notin AllowedFields \/ Head(kwargs).none
    THEN [error |-> "none", student |-> student, has_changes |-> has_changes]
    ELSE LET set == SetField(student, Head(kwargs)) IN
         [error |-> IF set.ok THEN "none" ELSE "DataValidationError",
          student |-> IF set.ok THEN set.student ELSE student,
          has_changes |-> set.ok]

\* Student.update_info: the keyword arguments in call order, each committed
\* before the next is looked at; an exception leaves the earlier ones set.
RECURSIVE update_info(_, _, _)
update_info(student, kwargs, has_changes) ==
    IF kwargs = <<>>
    THEN [error |-> "none", student |-> student, has_changes |-> has_changes]
    ELSE LET kw == Head(kwargs) IN
         IF kw.field = "student_id"
         THEN [error |-> "InvalidOperationError", student |-> student,
               has_changes |-> has_changes]
         ELSE IF kw.field \notin AllowedFields
         THEN [error |-> "DataValidationError", student |-> student,
               has_changes |-> has_changes]
         ELSE IF kw.none
         THEN update_info(student, Tail(kwargs), has_changes)
         ELSE LET set == SetField(student, kw) IN
              IF set.ok
              THEN update_info(set.student, Tail(kwargs), TRUE)
              ELSE [error |-> "DataValidationError", student |-> student,
                    has_changes |-> has_changes]

(***************************************************************************)
(* DataManager (managers/data_manager.py)                                 *)
(*                                                                         *)
(* The data file is absent, holds a JSON object (a map from key to raw    *)
(* record), or is what a failed write left: zero-length, or the beginning *)
(* of a JSON text.                                                         *)
(***************************************************************************)
EmptyMap == <<>>

AbsentFile == [kind |-> "absent", data |-> EmptyMap]

JsonFile(data) == [kind |-> "json", data |-> data]

\* The ways open(path, 'w') + json.dump can end: written; open() raises and the
\* file is untouched; the file is truncated by open() and the write raises with
\* nothing or only part of the text on disk.
SaveOutcomes == {"ok", "open_fail", "write_empty", "write_partial"}

\* The text json.dump writes for a dict: the members (key, value) of a JSON
\* object, one for every key of the dict
RECURSIVE dump_object(_)
dump_object(d) ==
    IF DOMAIN d = {} THEN <<>>
    ELSE LET k == CHOOSE x \in DOMAIN d : TRUE IN
         <<<<k, d[k]>>>> \o dump_object([x \in DOMAIN d \ {k} |-> d[x]])

\* faulty variant of load_object: only the last member is read
load_object_last_only(members) ==
    IF members = <<>> THEN EmptyMap
    ELSE [x \in {members[Len(members)][1]} |-> members[Len(members)][2]]

\* The dict json.load makes of the members of a JSON object: a later member
\* replaces an earlier one of the same key
RECURSIVE load_object(_)
load_object(members) ==
    IF members = <<>> THEN EmptyMap
    ELSE LET n == Len(members)
             rest == load_object(SubSeq(members, 1, n - 1))
         IN  [x \in DOMAIN rest \cup {members[n][1]} |->
                 IF x = members[n][1] THEN members[n][2] ELSE rest[x]]

\* json.dump(students_data, f): an object whose values are the objects of the
\* records; strings and integers are written as themselves
json_dump(students_data) ==
    LET top == dump_object(students_data) IN
    [i \in 1..Len(top) |-> <<top[i][1], dump_object(top[i][2])>>]

\* json.load(f)
json_load(text) ==
    LET top == load_object(text) IN
    [k \in DOMAIN top |-> load_object(top[k])]

\* the file json.dump leaves when it has written the whole text: a file is
\* kept as what json.load reads from it
Written(students_data) == JsonFile(json_load(json_dump(students_data)))

\* faulty variant of save_data: the dataset is written over what the file holds, key by
\* key, and what it does not mention stays
save_data_merge(f, students_data, outcome) ==
    IF outcome = "ok"
    THEN [ok |-> TRUE,
          file |-> [kind |-> "json",
                    data |-> [k \in DOMAIN f.data \cup DOMAIN students_data |->
                                 IF k \in DOMAIN students_data
                                 THEN students_data[k] ELSE f.data[k]]]]
    ELSE [ok |-> FALSE, file |-> f]

save_data(f, students_data, outcome) ==
    CASE outcome = "ok" -> [ok |-> TRUE, file |-> Written(students_data)]
      [] outcome = "open_fail" -> [ok |-> FALSE, file |-> f]
      [] outcome = "write_empty" ->
           [ok |-> FALSE, file |-> [kind |-> "empty", data |-> EmptyMap]]
      [] outcome = "write_partial" ->
           [ok |-> FALSE, file |-> [kind |-> "partial", data |-> EmptyMap]]

\* faulty variant of load_data: a data file that is not there is an error
load_data_absent_fails(f) ==
    IF f.kind = "json" THEN [ok |-> TRUE, data |-> f.data]
    ELSE [ok |-> FALSE, data |-> EmptyMap]

\* load_data: {} when the file does not exist, DataIOError when json.load fails
load_data(f) ==
    CASE f.kind = "absent" -> [ok |-> TRUE, data |-> EmptyMap]
      [] f.kind = "json" -> [ok |-> TRUE, data |-> f.data]
      [] OTHER -> [ok |-> FALSE, data |-> EmptyMap]


(***************************************************************************)
(* StudentManager (managers/student_manager.py)                           *)
(*                                                                         *)
(* students is self._students: a map from key to Student.  Every method   *)
(* is an operator from the state before the call and the call's inputs to *)
(* the state after it and what the caller gets: result is "ok", "nothing" *)
(* (a normal return that reports that nothing was done) or the class of   *)
(* the exception raised; saves and loads count the calls of save_data and *)
(* load_data; count and found are the returned number and Student.        *)
(***************************************************************************)
Put(m, k, v) == [x \in DOMAIN m \cup {k} |-> IF x = k THEN v ELSE m[x]]

\* faulty variant of Remove: nothing is deleted
Remove_nothing(m, k) == m

Remove(m, k) == [x \in DOMAIN m \ {k} |-> m[x]]

Outcome(st, f, result, saves, loads, count, found) ==
    [students |-> st, file |-> f, result |-> result, saves |-> saves,
     loads |-> loads, count |-> count, found |-> found]

_validate_student_id(student_id) == MatchManagerId(student_id)

\* _load_students: every entry of the file that from_dict accepts is put into
\* self._students under the file's key; the map is not cleared first.
_load_students(st, f) ==
    LET l == load_data(f) IN
    IF ~l.ok
    THEN [ok |-> FALSE, students |-> st]
    ELSE LET good == {k \in DOMAIN l.data : from_dict(l.data[k]).ok} IN
         [ok |-> TRUE,
          students |-> [k \in DOMAIN st \cup good |->
                           IF k \in good THEN from_dict(l.data[k]).student ELSE st[k]]]

\* faulty variant of _save_students: success is reported and nothing is written
_save_students_skipped(st, f, outcome) == [ok |-> TRUE, file |-> f]

\* _save_students: the whole map, serialized, handed to save_data
_save_students(st, f, outcome) ==
    save_data(f, [k \in DOMAIN st |-> to_dict(st[k])], outcome)

add_student(st, f, a, outcome) ==
    IF ~_validate_student_id(a.student_id)
    THEN Outcome(st, f, "DataValidationError", 0, 0, 0, <<>>)
    ELSE IF a.student_id \in DOMAIN st
    THEN Outcome(st, f, "StudentAlreadyExistsError", 0, 0, 0, <<>>)
    ELSE LET new == Student(a) IN
         IF ~new.ok
         THEN Outcome(st, f, "DataValidationError", 0, 0, 0, <<>>)
         ELSE LET st1 == Put(st, a.student_id, new.student)
                  sv == _save_students(st1, f, outcome)
              IN  IF sv.ok
                  THEN Outcome(st1, sv.file, "ok", 1, 0, 0, <<>>)
                  ELSE Outcome(Remove(st1, a.student_id), sv.file,
                               "DataIOError", 1, 0, 0, <<>>)

get_student_by_id(st, f, student_id) ==
    IF ~_validate_student_id(student_id)
    THEN Outcome(st, f, "StudentNotFoundError", 0, 0, 0, <<>>)
    ELSE IF student_id \in DOMAIN st
    THEN Outcome(st, f, "ok", 0, 0, 0, <<st[student_id]>>)
    ELSE Outcome(st, f, "StudentNotFoundError", 0, 0, 0, <<>>)

MinUpdateAge == 0
MaxUpdateAge == 150

\* update_student's own loop over the keyword arguments, before update_info:
\* unknown fields and None are passed over, an age outside 0..150 raises
precheck_ok(kwargs) ==
    \A i \in 1..Len(kwargs) :
        LET kw == kwargs[i] IN
        (kw.field \in AllowedFields /\ ~kw.none /\ kw.field = "age")
            => ~(kw.int < MinUpdateAge \/ kw.int > MaxUpdateAge)

update_student(st, f, student_id, kwargs, outcome) ==
    IF ~_validate_student_id(student_id)
    THEN Outcome(st, f, "DataValidationError", 0, 0, 0, <<>>)
    ELSE IF get_student_by_id(st, f, student_id).result # "ok"
    THEN Outcome(st, f, "StudentNotFoundError", 0, 0, 0, <<>>)
    ELSE IF ~precheck_ok(kwargs)
    THEN Outcome(st, f, "DataValidationError", 0, 0, 0, <<>>)
    ELSE LET up == update_info(st[student_id], kwargs, FALSE)
             \* the Student in the map is the object update_info changed
             st1 == [st EXCEPT ![student_id] = up.student]
         IN  IF up.error = "DataValidationError"
             THEN Outcome(st1, f, "DataValidationError", 0, 0, 0, <<>>)
             ELSE IF up.error # "none"
             THEN Outcome(st1, f, "OperationFailedError", 0, 0, 0, <<>>)
             ELSE IF ~up.has_changes
             THEN Outcome(st1, f, "nothing", 0, 0, 0, <<>>)
             ELSE LET sv == _save_students(st1, f, outcome) IN
                  IF sv.ok
                  THEN Outcome(st1, sv.file, "ok", 1, 0, 0, <<>>)
                  \* the handler reloads, then re-raises the DataIOError, which
                  \* the outer "except Exception" wraps
                  ELSE Outcome(_load_students(st1, sv.file).students, sv.file,
                               "OperationFailedError", 1, 1, 0, <<>>)

\* faulty variant of delete_student: an absent key is deleted like a present one
delete_student_unchecked(st, f, student_id, outcome) ==
    IF ~_validate_student_id(student_id)
    THEN Outcome(st, f, "DataValidationError", 0, 0, 0, <<>>)
    ELSE LET st1 == Remove(st, student_id)
             sv == _save_students(st1, f, outcome)
         IN  IF sv.ok
             THEN Outcome(st1, sv.file, "ok", 1, 0, 0, <<>>)
             ELSE Outcome(_load_students(st1, sv.file).students, sv.file,
                          "DataIOError", 1, 1, 0, <<>>)

delete_student(st, f, student_id, outcome) ==
    IF ~_validate_student_id(student_id)
    THEN Outcome(st, f, "DataValidationError", 0, 0, 0, <<>>)
    ELSE IF student_id \notin DOMAIN st
    THEN Outcome(st, f, "StudentNotFoundError", 0, 0, 0, <<>>)
    ELSE LET st1 == Remove(st, student_id)
             sv == _save_students(st1, f, outcome)
         IN  IF sv.ok
             THEN Outcome(st1, sv.file, "ok", 1, 0, 0, <<>>)
             ELSE Outcome(_load_students(st1, sv.file).students, sv.file,
                          "DataIOError", 1, 1, 0, <<>>)


\* the "for student_id in [...]: del self._students[student_id]" loop: a key
\* that is no longer in the map raises KeyError, with the keys before it deleted
RECURSIVE del_loop(_, _)
del_loop(st, ids) ==
    IF ids = <<>>
    THEN [ok |-> TRUE, students |-> st]
    ELSE IF Head(ids) \notin DOMAIN st
    THEN [ok |-> FALSE, students |-> st]
    ELSE del_loop(Remove(st, Head(ids)), Tail(ids))

\* faulty variant of delete_students_by_ids: the map is saved also when there is
\* nothing to delete
delete_students_by_ids_saving(st, f, student_ids, outcome) ==
    LET Deletable(id) == _validate_student_id(id) /\ id \in DOMAIN st
        dl == del_loop(st, SelectSeq(student_ids, Deletable))
        sv == _save_students(dl.students, f, outcome)
    IN  IF ~dl.ok
        THEN Outcome(dl.students, f, "OperationFailedError", 0, 0, 0, <<>>)
        ELSE IF sv.ok
        THEN Outcome(dl.students, sv.file,
                     IF Len(SelectSeq(student_ids, Deletable)) = 0 THEN "nothing" ELSE "ok",
                     1, 0, Len(SelectSeq(student_ids, Deletable)), <<>>)
        ELSE Outcome(_load_students(dl.students, sv.file).students, sv.file,
                     "DataIOError", 1, 1, 0, <<>>)

delete_students_by_ids(st, f, student_ids, outcome) ==
    LET Deletable(id) == _validate_student_id(id) /\ id \in DOMAIN st
        \* one is counted for every list entry that is valid and present
        deleted_count == Cardinality({i \in 1..Len(student_ids) : Deletable(student_ids[i])})
    IN  IF deleted_count = 0
        THEN Outcome(st, f, "nothing", 0, 0, 0, <<>>)
        ELSE LET dl == del_loop(st, SelectSeq(student_ids, Deletable)) IN
             IF ~dl.ok
             THEN Outcome(dl.students, f, "OperationFailedError", 0, 0, 0, <<>>)
             ELSE LET sv == _save_students(dl.students, f, outcome) IN
                  IF sv.ok
                  THEN Outcome(dl.students, sv.file, "ok", 1, 0, deleted_count, <<>>)
                  ELSE Outcome(_load_students(dl.students, sv.file).students, sv.file,
                               "DataIOError", 1, 1, 0, <<>>)

\* the keys of a map as a list (no key twice)
RECURSIVE SetToSeq(_)
SetToSeq(S) ==
    IF S = {} THEN <<>>
    ELSE LET x == CHOOSE y \in S : TRUE IN <<x>> \o SetToSeq(S \ {x})

delete_students_by_class(st, f, class_name, outcome) ==
    IF class_name = <<>>
    THEN Outcome(st, f, "DataValidationError", 0, 0, 0, <<>>)
    ELSE LET student_ids == SetToSeq({k \in DOMAIN st : st[k].class_name = class_name}) IN
         IF student_ids = <<>>
         THEN Outcome(st, f, "nothing", 0, 0, 0, <<>>)
         ELSE LET r == delete_students_by_ids(st, f, student_ids, outcome) IN
              IF r.result \in {"ok", "nothing"}
              THEN r
              ELSE [r EXCEPT !.result = "OperationFailedError"]

\* get_class_student_count: 0 for an empty name, else the number of Students
\* of the map whose class_name is the name
get_class_student_count(st, class_name) ==
    IF class_name = <<>> THEN 0
    ELSE Cardinality({k \in DOMAIN st : st[k].class_name = class_name})

UpperSeq == <<"A", "B", "C", "D", "E", "F", "G", "H", "I", "J", "K", "L", "M",
              "N", "O", "P", "Q", "R", "S", "T", "U", "V", "W", "X", "Y", "Z">>

LowerSeq == <<"a", "b", "c", "d", "e", "f", "g", "h", "i", "j", "k", "l", "m",
              "n", "o", "p", "q", "r", "s", "t", "u", "v", "w", "x", "y", "z">>

\* faulty variant of lower: the string as it is
lower_unchanged(s) == s

\* str.lower(): a capital letter becomes its small letter; digits, Han
\* characters and the other characters stay
lower(s) ==
    [i \in 1..Len(s) |->
        IF s[i] \in Upper
        THEN LowerSeq[CHOOSE n \in 1..Len(UpperSeq) : UpperSeq[n] = s[i]]
        ELSE s[i]]

\* sub in s
Contains(sub, s) ==
    \E i \in 0..(Len(s) - Len(sub)) : SubSeq(s, i + 1, i + Len(sub)) = sub

\* self._students.values(), in the order of the dict
Values(st) ==
    LET keys == SetToSeq(DOMAIN st) IN [i \in 1..Len(keys) |-> st[keys[i]]]

\* faulty variant of search_students_by_name: an empty keyword is searched for
\* like any other
search_students_by_name_unguarded(st, f, name) ==
    LET Hit(student) == Contains(lower(name), lower(student.name))
        results == SelectSeq(Values(st), Hit)
    IN  Outcome(st, f, "ok", 0, 0, Len(results), results)

\* search_students_by_name: [] for an empty keyword, else every Student whose
\* lowered name has the lowered keyword in it
search_students_by_name(st, f, name) ==
    IF name = <<>>
    THEN Outcome(st, f, "ok", 0, 0, 0, <<>>)
    ELSE LET Hit(student) == Contains(lower(name), lower(student.name))
             results == SelectSeq(Values(st), Hit)
         IN  Outcome(st, f, "ok", 0, 0, Len(results), results)

\* faulty variant of search_students_by_class: the data file is loaded again
\* before the search
search_students_by_class_reloading(st, f, class_name) ==
    LET st1 == _load_students(st, f).students
        Hit(student) == student.class_name = class_name
        results == IF class_name = <<>> THEN <<>> ELSE SelectSeq(Values(st1), Hit)
    IN  Outcome(st1, f, "ok", 0, 1, Len(results), results)

\* search_students_by_class: [] for an empty name, else every Student whose
\* class_name is the name
search_students_by_class(st, f, class_name) ==
    IF class_name = <<>>
    THEN Outcome(st, f, "ok", 0, 0, 0, <<>>)
    ELSE LET Hit(student) == student.class_name = class_name
             results == SelectSeq(Values(st), Hit)
         IN  Outcome(st, f, "ok", 0, 0, Len(results), results)

\* get_all_students: the Students of the map, as a list
get_all_students(st, f) ==
    Outcome(st, f, "ok", 0, 0, Len(Values(st)), Values(st))

\* get_student_count: len of the map
get_student_count(st) == Cardinality(DOMAIN st)

\* faulty variant of get_class_list: the class name of every Student, not
\* collected in a set first
get_class_list_with_repeats(st) ==
    [i \in 1..Len(Values(st)) |-> Values(st)[i].class_name]

\* get_class_list: the class names of the Students collected in a set, then
\* listed (the code sorts the list; the order is not modelled)
get_class_list(st) == SetToSeq({st[k].class_name : k \in DOMAIN st})

\* faulty variant of dm_import_data: in a merge the stored entry wins over the
\* imported one
dm_import_data_keeping(f, import_file, overwrite, outcome) ==
    IF import_file.kind \in {"absent", "empty"}
    THEN [result |-> "EmptyDataError", file |-> f, saves |-> 0, loads |-> 0]
    ELSE IF import_file.kind # "json"
    THEN [result |-> "DataIOError", file |-> f, saves |-> 0, loads |-> 0]
    ELSE LET cur == load_data(f) IN
         IF ~cur.ok
         THEN [result |-> "DataIOError", file |-> f, saves |-> 0, loads |-> 1]
         ELSE LET imported == import_file.data
                  merged == [k \in DOMAIN cur.data \cup DOMAIN imported |->
                                IF k \in DOMAIN cur.data THEN cur.data[k] ELSE imported[k]]
                  sv == save_data(f, merged, outcome)
              IN  [result |-> IF sv.ok THEN "ok" ELSE "DataIOError", file |-> sv.file,
                   saves |-> 1, loads |-> 1]

\* faulty variant of dm_import_data: with overwrite the stored dataset is
\* replaced before the import file is looked at
dm_import_data_clearing(f, import_file, overwrite, outcome) ==
    LET g == IF overwrite THEN save_data(f, EmptyMap, "ok").file ELSE f IN
    IF import_file.kind \in {"absent", "empty"}
    THEN [result |-> "EmptyDataError", file |-> g, saves |-> 0, loads |-> 0]
    ELSE IF import_file.kind # "json"
    THEN [result |-> "DataIOError", file |-> g, saves |-> 0, loads |-> 0]
    ELSE dm_import_data_keeping(f, import_file, overwrite, outcome)

\* DataManager.import_data.  An import file is absent, zero-length, not JSON
\* ("partial"), JSON that is not an object ("array"), or a JSON object.
dm_import_data(f, import_file, overwrite, outcome) ==
    IF import_file.kind \in {"absent", "empty"}
    THEN [result |-> "EmptyDataError", file |-> f, saves |-> 0, loads |-> 0]
    ELSE IF import_file.kind # "json"
    THEN [result |-> "DataIOError", file |-> f, saves |-> 0, loads |-> 0]
    ELSE IF overwrite
    THEN LET sv == save_data(f, import_file.data, outcome) IN
         [result |-> IF sv.ok THEN "ok" ELSE "DataIOError", file |-> sv.file,
          saves |-> 1, loads |-> 0]
    ELSE LET cur == load_data(f) IN
         IF ~cur.ok
         THEN [result |-> "DataIOError", file |-> f, saves |-> 0, loads |-> 1]
         ELSE LET imported == import_file.data
                  \* current_data.update(imported_data)
                  merged == [k \in DOMAIN cur.data \cup DOMAIN imported |->
                                IF k \in DOMAIN imported THEN imported[k] ELSE cur.data[k]]
                  sv == save_data(f, merged, outcome)
              IN  [result |-> IF sv.ok THEN "ok" ELSE "DataIOError", file |-> sv.file,
                   saves |-> 1, loads |-> 1]

\* StudentManager.import_data: _load_students after the import, and in the
\* handler when it raised
import_data(st, f, import_file, overwrite, outcome) ==
    LET dm == dm_import_data(f, import_file, overwrite, outcome)
        ld == _load_students(st, dm.file)
    IN  Outcome(ld.students, dm.file,
                IF ld.ok THEN dm.result ELSE "DataIOError",
                dm.saves, dm.loads + 1, 0, <<>>)


(***************************************************************************)
(* DataManager: backup, restore, clear, export, cleanup                   *)
(*                                                                         *)
(* clock is the time in whole seconds.  A backup is written to            *)
(* data/backups/students_backup_<YYYYMMDD_HHMMSS>.json, a name that the   *)
(* second of the call determines, so backups is a map from the second to  *)
(* what the file of that name holds: kind and data as for the data file,  *)
(* and the modification time.  mtime is the modification time of the data *)
(* file.                                                                   *)
(***************************************************************************)
NoBackups == <<>>

NoEntry == [kind |-> "absent", data |-> EmptyMap, mtime |-> 0]

\* a file with its modification time, as shutil.copy2 reads it
FileEntry(f, mt) == [kind |-> f.kind, data |-> f.data, mtime |-> mt]

\* shutil.copy2(src, dst): the content, then the metadata with the modification
\* time of src.  It ends like a save: done, dst not opened, or dst truncated
\* and the copy broken off; a write sets the modification time of dst.
copy2(src, dst, now, outcome) ==
    CASE outcome = "ok" -> [ok |-> TRUE, entry |-> src]
      [] outcome = "open_fail" -> [ok |-> FALSE, entry |-> dst]
      [] outcome = "write_empty" ->
           [ok |-> FALSE, entry |-> [kind |-> "empty", data |-> EmptyMap, mtime |-> now]]
      [] outcome = "write_partial" ->
           [ok |-> FALSE, entry |-> [kind |-> "partial", data |-> EmptyMap, mtime |-> now]]

\* backup_data: EmptyDataError when the data file is absent or zero-length,
\* else a copy of it under the name of the current second
backup_data(f, mt, bk, now, outcome) ==
    IF f.kind \in {"absent", "empty"}
    THEN [result |-> "EmptyDataError", path |-> -1, backups |-> bk]
    ELSE LET cp == copy2(FileEntry(f, mt),
                         IF now \in DOMAIN bk THEN bk[now] ELSE NoEntry, now, outcome)
         IN  [result |-> IF cp.ok THEN "ok" ELSE "BackupRestoreError",
              path |-> IF cp.ok THEN now ELSE -1,
              backups |-> IF cp.entry.kind = "absent" THEN bk ELSE Put(bk, now, cp.entry)]

\* faulty variant of restore_data: the backup file is copied over the data file
\* whether or not the backup of the current data file was made
restore_data_unguarded(f, mt, bk, now, backup_file, outcome_backup, outcome) ==
    IF backup_file \notin DOMAIN bk \/ bk[backup_file].kind = "empty"
    THEN [result |-> "EmptyDataError", file |-> f, mtime |-> mt, backups |-> bk,
          pre_restore_backup |-> -1]
    ELSE LET b == backup_data(f, mt, bk, now, outcome_backup)
             cp == copy2(b.backups[backup_file], FileEntry(f, mt), now, outcome)
         IN  [result |-> IF cp.ok THEN "ok" ELSE "BackupRestoreError",
              file |-> [kind |-> cp.entry.kind, data |-> cp.entry.data],
              mtime |-> cp.entry.mtime, backups |-> b.backups,
              pre_restore_backup |-> b.path]

\* restore_data: EmptyDataError when the backup file is absent or zero-length;
\* then backup_data() of the current data file, whose errors pass through;
\* then the copy of the backup file over the data file
restore_data(f, mt, bk, now, backup_file, outcome_backup, outcome) ==
    IF backup_file \notin DOMAIN bk \/ bk[backup_file].kind = "empty"
    THEN [result |-> "EmptyDataError", file |-> f, mtime |-> mt, backups |-> bk,
          pre_restore_backup |-> -1]
    ELSE LET b == backup_data(f, mt, bk, now, outcome_backup) IN
         IF b.result # "ok"
         THEN [result |-> b.result, file |-> f, mtime |-> mt, backups |-> b.backups,
               pre_restore_backup |-> -1]
         ELSE LET cp == copy2(b.backups[backup_file], FileEntry(f, mt), now, outcome) IN
              [result |-> IF cp.ok THEN "ok" ELSE "BackupRestoreError",
               file |-> [kind |-> cp.entry.kind, data |-> cp.entry.data],
               mtime |-> cp.entry.mtime, backups |-> b.backups,
               pre_restore_backup |-> b.path]

\* clear_data: when the data file exists, backup_data() with its exceptions
\* swallowed, then os.remove, whose failure is a DataIOError
clear_data(f, mt, bk, now, outcome_backup, removed) ==
    IF f.kind = "absent"
    THEN [result |-> "ok", file |-> f, mtime |-> mt, backups |-> bk]
    ELSE LET b == backup_data(f, mt, bk, now, outcome_backup) IN
         IF removed
         THEN [result |-> "ok", file |-> AbsentFile, mtime |-> 0, backups |-> b.backups]
         ELSE [result |-> "DataIOError", file |-> f, mtime |-> mt, backups |-> b.backups]

\* the export of a call: the directory part of export_file ("" when the path
\* is a bare file name, else a directory that exists or is missing), how the
\* write ended, what is at export_file when the call returns and whether the
\* directory was made
NoExport == [parent |-> "", outcome |-> "none", target |-> AbsentFile, made |-> FALSE]

\* export_data: for "json", load_data, os.makedirs of the directory part of
\* export_file, which raises for the empty path of a bare file name, and a dump
\* to export_file, opened with 'w'.  The first handler names
\* InvalidOperationError, which is a local name bound only in the branch of the
\* other formats, so an exception of the "json" branch ends as
\* UnboundLocalError.
dm_export_data(f, format, parent, target, outcome) ==
    IF format # "json"
    THEN [result |-> "InvalidOperationError", export |-> [NoExport EXCEPT !.target = target]]
    ELSE IF ~load_data(f).ok \/ parent = ""
    THEN [result |-> "UnboundLocalError",
          export |-> [NoExport EXCEPT !.parent = parent, !.target = target]]
    ELSE LET w == save_data(target, load_data(f).data, outcome) IN
         [result |-> IF w.ok THEN "ok" ELSE "UnboundLocalError",
          export |-> [parent |-> parent, outcome |-> outcome, target |-> w.file,
                      made |-> parent = "missing"]]

DaySeconds == 24 * 60 * 60

\* the names in the backup directory, as the characters they are made of
BackupPrefix ==
    <<"s", "t", "u", "d", "e", "n", "t", "s", "_", "b", "a", "c", "k", "u", "p", "_">>

BackupSuffix == <<".", "j", "s", "o", "n">>

\* datetime.now().strftime('%Y%m%d_%H%M%S'): the seconds of the clock are the
\* first seconds of one minute
strftime(second) ==
    <<"2", "0", "2", "4", "0", "1", "0", "1", "_", "0", "0", "0", "0", "0">>
        \o <<(<<"0", "1", "2", "3", "4", "5", "6", "7", "8", "9">>)[second + 1]>>

\* the name backup_data gives the backup of a second
backup_filename(second) == BackupPrefix \o strftime(second) \o BackupSuffix

startswith(s, prefix) ==
    Len(s) >= Len(prefix) /\ SubSeq(s, 1, Len(prefix)) = prefix

endswith(s, suffix) ==
    Len(s) >= Len(suffix) /\ SubSeq(s, Len(s) - Len(suffix) + 1, Len(s)) = suffix

\* faulty variant of cleanup_old_backups: every old file of the directory is
\* removed, whatever its name
cleanup_old_backups_any_name(bk, others, now, keep_days, stuck, done) ==
    LET cutoff == now - keep_days * DaySeconds
        old == {backup_filename(p) : p \in {q \in DOMAIN bk : bk[q].mtime < cutoff}}
                   \cup {n \in DOMAIN others : others[n].mtime < cutoff}
        failed == old \cap stuck # {}
        gone == IF failed THEN done \cap (old \ stuck) ELSE old
    IN  [count |-> IF failed THEN 0 ELSE Cardinality(old),
         failed |-> failed,
         backups |-> [p \in {q \in DOMAIN bk : backup_filename(q) \notin gone} |-> bk[p]],
         others |-> [n \in DOMAIN others \ gone |-> others[n]]]

\* cleanup_old_backups: of the files of the directory whose name starts with
\* students_backup_ and ends with .json, those whose modification time is
\* before now - keep_days days are removed, in the order os.listdir gives.  bk
\* holds the files backup_data wrote, others every other file of the
\* directory.  os.remove raises for the names in stuck; the first such file
\* ends the loop in the handler that logs and returns 0, with the files in done
\* (those os.listdir gave before it) already removed.
cleanup_old_backups(bk, others, now, keep_days, stuck, done) ==
    LET cutoff == now - keep_days * DaySeconds
        listed(n) == startswith(n, BackupPrefix) /\ endswith(n, BackupSuffix)
        old == {backup_filename(p) :
                    p \in {q \in DOMAIN bk : /\ listed(backup_filename(q))
                                             /\ bk[q].mtime < cutoff}}
                   \cup {n \in DOMAIN others : listed(n) /\ others[n].mtime < cutoff}
        failed == old \cap stuck # {}
        gone == IF failed THEN done \cap (old \ stuck) ELSE old
    IN  [count |-> IF failed THEN 0 ELSE Cardinality(old),
         failed |-> failed,
         backups |-> [p \in {q \in DOMAIN bk : backup_filename(q) \notin gone} |-> bk[p]],
         others |-> [n \in DOMAIN others \ gone |-> others[n]]]

(***************************************************************************)
(* The inputs the callers draw from                                       *)
(***************************************************************************)
ID1 == <<"1", "0", "0", "0", "0", "1">>
ID2 == <<"1", "0", "0", "0", "0", "2">>
\* passes the manager's pattern, not the Validator's
IdAlnum == <<"a", "b", "c">>
\* passes neither
IdShort == <<"1", "2">>

Ids == {ID1, ID2, IdAlnum, IdShort}

Phone == <<"1", "3", "8", "0", "0", "0", "0", "0", "0", "0", "0">>

NameInputs == {<<"a", "b">>, <<" ", "c", "d">>, <<"a">>}
GenderInputs == {"nan", "x"}
AgeInputs == {20, 10, 200}
ClassInputs == {<<"A">>, <<"B", " ">>, <<"#">>}
ContactInputs == {Phone, <<"z", "z">>}

Args(id, name, gender, age, class_name, contact) ==
    [student_id |-> id, name |-> name, gender |-> gender, age |-> age,
     class_name |-> class_name, contact |-> contact]

BaseArgs(id) == Args(id, <<"a", "b">>, "nan", 20, <<"A">>, Phone)

\* how many of the five fields of a tuple differ from the base tuple
Deviations(a) ==
    LET b == BaseArgs(a.student_id) IN
    Cardinality({fld \in AllowedFields : a[fld] # b[fld]})

\* add_student is called with tuples that differ from the base tuple in at
\* most MaxDeviations fields
MaxDeviations == 1

AddInputs ==
    {a \in [student_id : Ids, name : NameInputs, gender : GenderInputs,
            age : AgeInputs, class_name : ClassInputs, contact : ContactInputs] :
        Deviations(a) <= MaxDeviations}

\* the keyword arguments update_student is called with: a value or None for a
\* field, and a field the Student does not have
KwInputs ==
    {Kw("name", FALSE, v, 0) : v \in {<<" ", "c", "d">>, <<"a">>}}
    \cup {Kw("age", FALSE, <<>>, v) : v \in AgeInputs}
    \cup {Kw("class_name", FALSE, v, 0) : v \in {<<"B", " ">>}}
    \cup {Kw("gender", FALSE, "x", 0), Kw("contact", FALSE, Phone, 0)}
    \cup {Kw("name", TRUE, <<>>, 0), Kw("email", FALSE, <<"z", "z">>, 0)}

MaxKwargs == 2

\* keyword arguments in call order, no field twice
KwargsInputs ==
    {kws \in UNION {[1..n -> KwInputs] : n \in 1..MaxKwargs} :
        \A i, j \in 1..Len(kws) : i # j => kws[i].field # kws[j].field}

MaxBatch == 2

IdLists == UNION {[1..n -> Ids] : n \in 0..MaxBatch}

ClassQueries == {<<"A">>, <<"B">>, <<>>}

\* the files import_data is pointed at
ImportFiles ==
    {[kind |-> "absent", data |-> EmptyMap],
     [kind |-> "empty", data |-> EmptyMap],
     [kind |-> "partial", data |-> EmptyMap],
     [kind |-> "array", data |-> EmptyMap],
     \* one record as add would have written it
     JsonFile([k \in {ID2} |-> BaseArgs(ID2)]),
     \* ID2 with a padded name, and a record stored under a key that is not its id
     JsonFile([k \in {ID2, IdShort} |->
                  IF k = ID2
                  THEN Args(ID2, <<" ", "c", "d">>, "nan", 20, <<"B">>, Phone)
                  ELSE BaseArgs(ID1)]),
     \* a record no Student can be made of
     JsonFile([k \in {ID1} |-> Args(ID1, <<"a", "b">>, "nan", 10, <<"A">>, Phone)])}

(***************************************************************************)
(* The state machine: one caller, one call at a time.  pc is "idle"       *)
(* between calls and "returned" when a call has come back: call then      *)
(* holds the call and what the caller got, pre the state before the call. *)
(***************************************************************************)
NoArgs == Args(<<>>, <<>>, "", 0, <<>>, <<>>)

NoCall ==
    [op |-> "none", args |-> NoArgs, student_id |-> <<>>, kwargs |-> <<>>,
     ids |-> <<>>, class_name |-> <<>>, import_file |-> AbsentFile,
     overwrite |-> FALSE, outcome |-> "none", result |-> "none",
     saves |-> 0, loads |-> 0, count |-> 0, found |-> <<>>, export |-> NoExport]

NoPre == [students |-> EmptyMap, file |-> AbsentFile]

\* record is the Student object a caller of the Student class holds: none, or one
NoRecord == <<>>

\* the call comes back: the state after it, and what the caller observes
Returned(c, r, outcome) ==
    /\ students' = r.students
    /\ file' = r.file
    /\ pc' = "returned"
    /\ call' = [c EXCEPT !.outcome = IF r.saves > 0 THEN outcome ELSE "none",
                         !.result = r.result, !.saves = r.saves, !.loads = r.loads,
                         !.count = r.count, !.found = r.found]
    /\ pre' = [students |-> students, file |-> file]
    /\ UNCHANGED <<mtime, backups, clock, taken, record, strangers>>

Init ==
    /\ file = AbsentFile
    /\ students = _load_students(EmptyMap, file).students
    /\ pc = "idle"
    /\ call = NoCall
    /\ pre = NoPre
    /\ mtime = 0
    /\ backups = NoBackups
    /\ clock = 0
    /\ taken = NoBackups
    /\ record = NoRecord
    /\ strangers = NoBackups

AddStudent ==
    /\ pc = "idle"
    /\ \E a \in AddInputs : \E o \in SaveOutcomes :
           Returned([NoCall EXCEPT !.op = "add_student", !.args = a,
                                   !.student_id = a.student_id],
                    add_student(students, file, a, o), o)

GetStudentById ==
    /\ pc = "idle"
    /\ \E id \in Ids :
           Returned([NoCall EXCEPT !.op = "get_student_by_id", !.student_id = id],
                    get_student_by_id(students, file, id), "none")

UpdateStudent ==
    /\ pc = "idle"
    /\ \E id \in Ids : \E kws \in KwargsInputs : \E o \in SaveOutcomes :
           Returned([NoCall EXCEPT !.op = "update_student", !.student_id = id,
                                   !.kwargs = kws],
                    update_student(students, file, id, kws, o), o)

DeleteStudent ==
    /\ pc = "idle"
    /\ \E id \in Ids : \E o \in SaveOutcomes :
           Returned([NoCall EXCEPT !.op = "delete_student", !.student_id = id],
                    delete_student(students, file, id, o), o)

DeleteStudentsByIds ==
    /\ pc = "idle"
    /\ \E ids \in IdLists : \E o \in SaveOutcomes :
           Returned([NoCall EXCEPT !.op = "delete_students_by_ids", !.ids = ids],
                    delete_students_by_ids(students, file, ids, o), o)

DeleteStudentsByClass ==
    /\ pc = "idle"
    /\ \E c \in ClassQueries : \E o \in SaveOutcomes :
           Returned([NoCall EXCEPT !.op = "delete_students_by_class", !.class_name = c],
                    delete_students_by_class(students, file, c, o), o)

ImportData ==
    /\ pc = "idle"
    /\ \E imp \in ImportFiles : \E ow \in BOOLEAN : \E o \in SaveOutcomes :
           Returned([NoCall EXCEPT !.op = "import_data", !.import_file = imp,
                                   !.overwrite = ow],
                    import_data(students, file, imp, ow, o), o)

\* the caller has taken the result and is back at the menu
Return ==
    /\ pc = "returned"
    /\ pc' = "idle"
    /\ call' = NoCall
    /\ pre' = NoPre
    /\ UNCHANGED <<students, file, mtime, backups, clock, taken, record, strangers>>

Next ==
    \/ AddStudent
    \/ GetStudentById
    \/ UpdateStudent
    \/ DeleteStudent
    \/ DeleteStudentsByIds
    \/ DeleteStudentsByClass
    \/ ImportData
    \/ Return

\* The Record Manager and its callers.  It makes no backups, and the clock and
\* the modification times, which only backups look at, are left aside.
Spec == Init /\ [][Next]_vars

(***************************************************************************)
(* The Persistence Store and its callers: the DataManager on its own, as  *)
(* the Record Manager and the menu use it.  taken records, for every name *)
(* that backup_data has returned and cleanup has not removed, what the    *)
(* data file held when backup_data last returned it.                      *)
(***************************************************************************)
\* the datasets save_data is called with
Datasets ==
    {[k \in {ID1} |-> BaseArgs(ID1)],
     [k \in {ID1, ID2} |-> BaseArgs(k)],
     [k \in {ID2} |-> Args(ID2, <<"U5F20", "U4E09">>, "nv", 49, <<"B", "-", "1">>, Phone)]}

StoreImportFiles ==
    {[kind |-> "absent", data |-> EmptyMap],
     JsonFile([k \in {ID1, ID2} |-> BaseArgs(k)])}

\* the seconds of the clock
MaxClock == 1

Seconds == 0..MaxClock

KeepDays == {0, 30}

ExportFormats == {"json", "csv"}

ExportParents == {"", "exists", "missing"}

Content(e) == [kind |-> e.kind, data |-> e.data]

StoreCall ==
    [op |-> "none", dataset |-> EmptyMap, backup_file |-> -1,
     import_file |-> AbsentFile, overwrite |-> FALSE, format |-> "",
     keep_days |-> 0, outcome |-> "none", outcome_backup |-> "none",
     removed |-> FALSE, result |-> "none", path |-> -1, count |-> 0,
     export |-> NoExport]

\* the call comes back
StoreReturned(c, f, mt, bk, tk) ==
    /\ file' = f
    /\ mtime' = mt
    /\ backups' = bk
    /\ taken' = tk
    /\ pc' = "returned"
    /\ call' = c
    /\ pre' = [file |-> file, mtime |-> mtime, backups |-> backups, taken |-> taken]
    /\ UNCHANGED <<students, clock, record, strangers>>

\* backup_data gets as far as the copy
Backupable(f) == f.kind \notin {"absent", "empty"}

\* how a write or copy ended, when the call got as far as it
Attempted(reached, outcome) == IF reached THEN outcome ELSE "none"

\* taken after a backup_data call that returned r
Taken(tk, f, r) == IF r.result = "ok" THEN Put(tk, r.path, f) ELSE tk

SaveData ==
    /\ pc = "idle"
    /\ \E d \in Datasets : \E o \in SaveOutcomes :
           LET sv == save_data(file, d, o) IN
           StoreReturned([StoreCall EXCEPT !.op = "save_data", !.dataset = d,
                                           !.outcome = o,
                                           !.result = IF sv.ok THEN "ok" ELSE "DataIOError"],
                         sv.file, IF o = "open_fail" THEN mtime ELSE clock,
                         backups, taken)

BackupData ==
    /\ pc = "idle"
    /\ \E o \in SaveOutcomes :
           LET r == backup_data(file, mtime, backups, clock, o) IN
           StoreReturned([StoreCall EXCEPT !.op = "backup_data",
                                           !.outcome_backup = Attempted(Backupable(file), o),
                                           !.result = r.result, !.path = r.path],
                         file, mtime, r.backups, Taken(taken, file, r))

RestoreData ==
    /\ pc = "idle"
    /\ \E p \in Seconds : \E ob \in SaveOutcomes : \E o \in SaveOutcomes :
           LET r == restore_data(file, mtime, backups, clock, p, ob, o) IN
           StoreReturned([StoreCall EXCEPT !.op = "restore_data", !.backup_file = p,
                                           !.outcome_backup =
                                               Attempted(/\ p \in DOMAIN backups
                                                         /\ backups[p].kind # "empty"
                                                         /\ Backupable(file), ob),
                                           !.outcome =
                                               Attempted(r.pre_restore_backup # -1, o),
                                           !.result = r.result,
                                           !.path = r.pre_restore_backup],
                         r.file, r.mtime, r.backups,
                         IF r.pre_restore_backup = -1 THEN taken
                         ELSE Put(taken, r.pre_restore_backup, file))

ClearData ==
    /\ pc = "idle"
    /\ \E ob \in SaveOutcomes : \E removed \in BOOLEAN :
           LET r == clear_data(file, mtime, backups, clock, ob, removed)
               b == backup_data(file, mtime, backups, clock, ob)
           IN  StoreReturned([StoreCall EXCEPT !.op = "clear_data",
                                               !.outcome_backup =
                                                   Attempted(Backupable(file), ob),
                                               !.removed = removed /\ file.kind # "absent",
                                               !.result = r.result,
                                               !.path = IF file.kind = "absent" THEN -1
                                                        ELSE b.path],
                             r.file, r.mtime, r.backups,
                             IF file.kind = "absent" THEN taken ELSE Taken(taken, file, b))

StoreImportData ==
    /\ pc = "idle"
    /\ \E imp \in StoreImportFiles : \E ow \in BOOLEAN : \E o \in SaveOutcomes :
           LET r == dm_import_data(file, imp, ow, o) IN
           StoreReturned([StoreCall EXCEPT !.op = "import_data", !.import_file = imp,
                                           !.overwrite = ow,
                                           !.outcome = Attempted(r.saves > 0, o),
                                           !.result = r.result],
                         r.file,
                         IF r.saves > 0 /\ o # "open_fail" THEN clock ELSE mtime,
                         backups, taken)

ExportData ==
    /\ pc = "idle"
    /\ \E fmt \in ExportFormats : \E d \in ExportParents : \E o \in {"ok", "open_fail"} :
           LET r == dm_export_data(file, fmt, d, AbsentFile, o) IN
           StoreReturned([StoreCall EXCEPT !.op = "export_data", !.format = fmt,
                                           !.outcome = r.export.outcome,
                                           !.result = r.result, !.export = r.export],
                         file, mtime, backups, taken)

\* the names of the files in the backup directory
Listing(bk, others) == {backup_filename(p) : p \in DOMAIN bk} \cup DOMAIN others

\* os.remove fails for no file or for one; that file is the first or the last
\* that os.listdir gives
CleanupOldBackups ==
    /\ pc = "idle"
    /\ \E kd \in KeepDays :
       \E stuck \in {{}} \cup {{n} : n \in Listing(backups, strangers)} :
       \E done \in IF stuck = {} THEN {{}}
                   ELSE {{}, Listing(backups, strangers) \ stuck} :
           LET r == cleanup_old_backups(backups, strangers, clock, kd, stuck, done) IN
           /\ file' = file
           /\ mtime' = mtime
           /\ backups' = r.backups
           /\ strangers' = r.others
           /\ taken' = [p \in DOMAIN taken \cap DOMAIN r.backups |-> taken[p]]
           /\ pc' = "returned"
           /\ call' = [StoreCall EXCEPT !.op = "cleanup_old_backups",
                                        !.keep_days = kd,
                                        !.outcome = IF r.failed THEN "remove_fail"
                                                    ELSE "ok",
                                        !.result = "ok", !.count = r.count]
           /\ pre' = [file |-> file, mtime |-> mtime, backups |-> backups,
                      taken |-> taken, strangers |-> strangers]
           /\ UNCHANGED <<students, clock, record>>

\* a second passes between two calls
Tick ==
    /\ pc = "idle"
    /\ clock < MaxClock
    /\ clock' = clock + 1
    /\ UNCHANGED <<students, file, pc, call, pre, mtime, backups, taken, record,
                   strangers>>

StoreNext ==
    \/ SaveData
    \/ BackupData
    \/ RestoreData
    \/ ClearData
    \/ StoreImportData
    \/ ExportData
    \/ CleanupOldBackups
    \/ Tick
    \/ Return

StoreSpec == Init /\ [][StoreNext]_vars


(***************************************************************************)
(* A session of the Record Manager in which every call succeeds: the      *)
(* manager is constructed over the store as it finds it, and records are  *)
(* added, updated, deleted and searched for.                               *)
(***************************************************************************)
\* StudentManager.__init__: an empty map, then _load_students
NewManager(f) == _load_students(EmptyMap, f)

\* faulty variant of export_data: what the manager holds in memory is exported
export_data_of_map(st, f, parent, target, outcome) ==
    LET w == save_data(target, [k \in DOMAIN st |-> to_dict(st[k])], outcome) IN
    [students |-> st, file |-> f,
     result |-> IF parent # "" /\ w.ok THEN "ok" ELSE "UnboundLocalError",
     export |-> [parent |-> parent, outcome |-> outcome, target |-> w.file,
                 made |-> parent = "missing"]]

\* StudentManager.export_data: DataManager.export_data in the default format,
\* its result returned and its exception raised again
export_data(st, f, parent, target, outcome) ==
    LET r == dm_export_data(f, "json", parent, target, outcome) IN
    [students |-> st, file |-> f, result |-> r.result, export |-> r.export]

\* the data files a manager is constructed over: none, and what earlier
\* sessions or other programs left there
SessionFiles == {AbsentFile} \cup {f \in ImportFiles : f.kind = "json"}

SessionInit ==
    /\ file \in SessionFiles
    /\ students = NewManager(file).students
    /\ pc = "idle"
    /\ call = NoCall
    /\ pre = NoPre
    /\ mtime = 0
    /\ backups = NoBackups
    /\ clock = 0
    /\ taken = NoBackups
    /\ record = NoRecord
    /\ strangers = NoBackups

(***************************************************************************)
(* The backup directory with the files of other programs in it: strangers *)
(* maps the name of each file that backup_data did not write to its       *)
(* modification time.                                                      *)
(***************************************************************************)
\* students_backup_old.json, notes.txt, students.json
StrangerNames ==
    {BackupPrefix \o <<"o", "l", "d">> \o BackupSuffix,
     <<"n", "o", "t", "e", "s", ".", "t", "x", "t">>,
     <<"s", "t", "u", "d", "e", "n", "t", "s">> \o BackupSuffix}

\* another program writes a file into the backup directory
PutFile ==
    /\ pc = "idle"
    /\ \E n \in StrangerNames : strangers' = Put(strangers, n, [mtime |-> clock])
    /\ UNCHANGED <<students, file, pc, call, pre, mtime, backups, clock, taken, record>>

\* a store constructed over the data file of an earlier session
DirInit ==
    /\ file = JsonFile([k \in {ID1} |-> BaseArgs(k)])
    /\ students = EmptyMap
    /\ pc = "idle"
    /\ call = NoCall
    /\ pre = NoPre
    /\ mtime = 0
    /\ backups = NoBackups
    /\ clock = 0
    /\ taken = NoBackups
    /\ record = NoRecord
    /\ strangers = NoBackups

DirNext ==
    \/ BackupData
    \/ CleanupOldBackups
    \/ PutFile
    \/ Tick
    \/ Return

BackupDirSpec == DirInit /\ [][DirNext]_vars

\* five digits and a newline: re.match with $ accepts it, in the manager's
\* pattern and in the Validator's
IdNewline == <<"1", "2", "3", "4", "5", "\n">>

\* the tuples add_student is called with in a session
SessionAddInputs ==
    AddInputs
    \cup {BaseArgs(IdNewline),
          Args(ID2, <<"A", "b", " ", "C">>, "nv", 20, <<"B">>, Phone)}

\* the keywords of a search by name
NameQueries ==
    {<<>>, <<"a">>, <<"A", "B">>, <<"b", " ", "c">>, <<"c", "d">>, <<"x">>}

SuccessfulAdd ==
    /\ pc = "idle"
    /\ \E a \in SessionAddInputs :
           /\ add_student(students, file, a, "ok").result = "ok"
           /\ Returned([NoCall EXCEPT !.op = "add_student", !.args = a,
                                      !.student_id = a.student_id],
                       add_student(students, file, a, "ok"), "ok")

\* update returns True when it saved, and False when no value was supplied
SuccessfulUpdate == UpdateStudent /\ call'.result \in {"ok", "nothing"}

SuccessfulDelete == DeleteStudent /\ call'.result = "ok"

SearchStudentsByName ==
    /\ pc = "idle"
    /\ \E q \in NameQueries :
           Returned([NoCall EXCEPT !.op = "search_students_by_name",
                                   !.args = [NoArgs EXCEPT !.name = q]],
                    search_students_by_name(students, file, q), "none")

SearchStudentsByClass ==
    /\ pc = "idle"
    /\ \E c \in ClassQueries :
           Returned([NoCall EXCEPT !.op = "search_students_by_class", !.class_name = c],
                    search_students_by_class(students, file, c), "none")

GetAllStudents ==
    /\ pc = "idle"
    /\ Returned([NoCall EXCEPT !.op = "get_all_students"],
                get_all_students(students, file), "none")

GetStudentCount ==
    /\ pc = "idle"
    /\ Returned([NoCall EXCEPT !.op = "get_student_count"],
                Outcome(students, file, "ok", 0, 0, get_student_count(students), <<>>),
                "none")

GetClassList ==
    /\ pc = "idle"
    /\ Returned([NoCall EXCEPT !.op = "get_class_list"],
                Outcome(students, file, "ok", 0, 0, 0, get_class_list(students)),
                "none")

GetClassStudentCount ==
    /\ pc = "idle"
    /\ \E c \in ClassQueries :
           Returned([NoCall EXCEPT !.op = "get_class_student_count", !.class_name = c],
                    Outcome(students, file, "ok", 0, 0,
                            get_class_student_count(students, c), <<>>),
                    "none")

\* export_data(export_file), to a path where nothing or an earlier export is
ExportStudents ==
    /\ pc = "idle"
    /\ \E d \in ExportParents : \E t \in SessionFiles : \E o \in SaveOutcomes :
           LET r == export_data(students, file, d, t, o) IN
           Returned([NoCall EXCEPT !.op = "export_data", !.export = r.export],
                    Outcome(r.students, r.file, r.result, 0, 0, 0, <<>>), "none")

SessionNext ==
    \/ SuccessfulAdd
    \/ SuccessfulUpdate
    \/ SuccessfulDelete
    \/ SearchStudentsByName
    \/ SearchStudentsByClass
    \/ GetStudentById
    \/ GetAllStudents
    \/ GetStudentCount
    \/ GetClassList
    \/ GetClassStudentCount
    \/ ExportStudents
    \/ Return

SessionSpec == SessionInit /\ [][SessionNext]_vars


(***************************************************************************)
(* The Student class and its callers: a caller makes a Student with the   *)
(* constructor or from_dict, assigns to its properties and serializes it. *)
(***************************************************************************)
\* a mapping without one of its keys
Without(data, field) == [x \in DOMAIN data \ {field} |-> data[x]]

\* the mappings from_dict is called with: records as to_dict writes them, with
\* padded values, with a value its validator rejects, and with a field missing
DictInputs ==
    {BaseArgs(ID1),
     BaseArgs(IdNewline),
     Args(ID2, <<" ", "c", "d">>, "nv", 49, <<"B", " ">>, Phone),
     Args(ID1, <<"a", "b">>, "nan", 10, <<"A">>, Phone),
     Args(IdShort, <<"a", "b">>, "nan", 20, <<"A">>, Phone),
     Without(Args(ID1, <<"a", "b">>, "nan", 10, <<"A">>, Phone), "name")}
    \cup {Without(BaseArgs(ID1), fld) : fld \in StudentFields}

\* the values assigned to the properties
SetterInputs ==
    {kw \in KwInputs : kw.field \in AllowedFields /\ ~kw.none}
    \cup {Kw("gender", FALSE, "nv", 0),
          Kw("class_name", FALSE, <<"#">>, 0),
          Kw("contact", FALSE, <<"z", "z">>, 0)}

RecordCall ==
    [op |-> "none", data |-> EmptyMap, kw |-> Kw("", TRUE, <<>>, 0),
     result |-> "none", field |-> ""]

\* the call comes back; rec is the Student the caller holds after it
RecordReturned(c, rec) ==
    /\ record' = rec
    /\ pc' = "returned"
    /\ call' = c
    /\ pre' = [record |-> record]
    /\ UNCHANGED <<students, file, mtime, backups, clock, taken, strangers>>

\* what the caller gets and holds after Student(...) or from_dict(...): the new
\* Student, or DataValidationError and the Student it held
Made(c, s) ==
    RecordReturned([c EXCEPT !.result = IF s.ok THEN "ok" ELSE "DataValidationError",
                             !.field = IF s.ok THEN "" ELSE s.field],
                   IF s.ok THEN <<s.student>> ELSE record)

Construct ==
    /\ pc = "idle"
    /\ \E a \in SessionAddInputs :
           Made([RecordCall EXCEPT !.op = "Student", !.data = a], Student(a))

FromDict ==
    /\ pc = "idle"
    /\ \E d \in DictInputs \cup {to_dict(record[i]) : i \in DOMAIN record} :
           Made([RecordCall EXCEPT !.op = "from_dict", !.data = d], from_dict(d))

\* student.<field> = value
SetAttr ==
    /\ pc = "idle"
    /\ record # NoRecord
    /\ \E kw \in SetterInputs :
           LET s == SetField(record[1], kw) IN
           RecordReturned([RecordCall EXCEPT !.op = "setattr", !.kw = kw,
                                             !.result = IF s.ok THEN "ok"
                                                        ELSE "DataValidationError",
                                             !.field = IF s.ok THEN "" ELSE kw.field],
                          <<s.student>>)

ToDict ==
    /\ pc = "idle"
    /\ record # NoRecord
    /\ RecordReturned([RecordCall EXCEPT !.op = "to_dict", !.data = to_dict(record[1]),
                                         !.result = "ok"],
                      record)

RecordNext ==
    \/ Construct
    \/ FromDict
    \/ SetAttr
    \/ ToDict
    \/ Return

RecordSpec == Init /\ [][RecordNext]_vars


(***************************************************************************)
(* What the claims speak of                                               *)
(***************************************************************************)
Mutating ==
    {"add_student", "update_student", "delete_student",
     "delete_students_by_ids", "delete_students_by_class"}

Failed == call.result \notin {"none", "ok", "nothing"}

SaveFailures == {"open_fail", "write_empty", "write_partial"}

\* the data file holds a dataset (none when the file is absent) with the ids of
\* the in-memory map and, for each, the six field values of its Record
DiskEqualsMemory ==
    /\ file.kind \in {"json", "absent"}
    /\ DOMAIN file.data = DOMAIN students
    /\ \A k \in DOMAIN students : \A fld \in StudentFields :
           file.data[k][fld] = students[k][fld]

\* every field rule accepts the tuple's value
Accepted(a) ==
    /\ validate_student_id(a.student_id)
    /\ validate_name(a.name)
    /\ validate_gender(a.gender)
    /\ validate_age(a.age)
    /\ validate_class_name(a.class_name)
    /\ validate_contact(a.contact)

\* the tuple as a Record keeps it: surrounding whitespace removed from name,
\* class_name and contact
Normalized(a) ==
    [student_id |-> a.student_id, name |-> Strip(a.name), gender |-> a.gender,
     age |-> a.age, class_name |-> Strip(a.class_name), contact |-> Strip(a.contact)]

\* getById on the state the call left
GetNow(id) == get_student_by_id(students, file, id)

\* C1: after a successful add, update, delete, batchDelete or deleteByClass the
\* data file holds exactly the serialization of the in-memory map.
C1_SavedEqualsMemory ==
    (pc = "returned" /\ call.op \in Mutating /\ call.result = "ok")
        => DiskEqualsMemory

\* a mutating call succeeded from a state in which file and memory differed
C1_Witness ==
    /\ pc = "returned"
    /\ call.op = "delete_student"
    /\ call.result = "ok"
    /\ pre.file.kind = "json"
    /\ DOMAIN pre.file.data # DOMAIN pre.students
    /\ DiskEqualsMemory

\* C2: when a mutating call fails after the map was changed (its save failed, or
\* the deletion loop of batchDelete raised), the in-memory map equals the dataset
\* on disk when the error reaches the caller.  Stated for a data file that
\* held a dataset before the call and was left as it was by the failure.
C2_FailureLeavesMemoryEqualDisk ==
    (/\ pc = "returned"
     /\ call.op \in Mutating
     /\ Failed
     /\ pre.file.kind \in {"json", "absent"}
     /\ \/ call.outcome = "open_fail"
        \/ call.op = "delete_students_by_ids" /\ call.result = "OperationFailedError")
        => DiskEqualsMemory

\* a supplied value (not None, of a field a Student has) its validator rejects
Rejected(kw) ==
    /\ kw.field \in AllowedFields
    /\ ~kw.none
    /\ ~SetField(BaseArgs(ID1), kw).ok

\* C3: an update in which a supplied value is rejected by its validator fails
\* with DataValidationError and leaves the in-memory map as it was.
C3_RejectedUpdateChangesNothing ==
    (/\ pc = "returned"
     /\ call.op = "update_student"
     /\ call.student_id \in DOMAIN pre.students
     /\ \E i \in 1..Len(call.kwargs) : Rejected(call.kwargs[i]))
        => (call.result = "DataValidationError" /\ students = pre.students)

\* C4 as stated: add of an accepted tuple under a new id, the save succeeding,
\* then getById(id), returns a Record whose six fields are the values passed.
C4_AddThenGetExact ==
    (/\ pc = "returned"
     /\ call.op = "add_student"
     /\ Accepted(call.args)
     /\ call.student_id \notin DOMAIN pre.students
     /\ call.outcome \notin SaveFailures)
        => (/\ call.result = "ok"
            /\ GetNow(call.student_id).result = "ok"
            /\ GetNow(call.student_id).found = <<call.args>>)

\* C4 amended: ... returns a Record with the id, gender and age passed, and the
\* name, class_name and contact passed with surrounding whitespace removed.
C4_AddThenGetNormalized ==
    (/\ pc = "returned"
     /\ call.op = "add_student"
     /\ Accepted(call.args)
     /\ call.student_id \notin DOMAIN pre.students
     /\ call.outcome \notin SaveFailures)
        => (/\ call.result = "ok"
            /\ GetNow(call.student_id).result = "ok"
            /\ GetNow(call.student_id).found = <<Normalized(call.args)>>)

\* an accepted tuple with a padded value was added
C4_Witness ==
    /\ pc = "returned"
    /\ call.op = "add_student"
    /\ call.result = "ok"
    /\ Normalized(call.args) # call.args
    /\ GetNow(call.student_id).found = <<Normalized(call.args)>>

\* C5: add with an id that is already in the map fails with
\* StudentAlreadyExists whatever the other values are, and the record under that
\* id stays as it was, in memory and on disk.
C5_PresentIdIsAlreadyExists ==
    (/\ pc = "returned"
     /\ call.op = "add_student"
     /\ call.student_id \in DOMAIN pre.students)
        => (/\ call.result = "StudentAlreadyExistsError"
            /\ call.saves = 0
            /\ students = pre.students
            /\ file = pre.file)

\* C5 for the ids an add can have stored (those matching ^[0-9]{6,20}$): the
\* second add fails with StudentAlreadyExists and changes nothing.
C5_SecondAddRejected ==
    (/\ pc = "returned"
     /\ call.op = "add_student"
     /\ validate_student_id(call.student_id)
     /\ call.student_id \in DOMAIN pre.students)
        => (/\ call.result = "StudentAlreadyExistsError"
            /\ call.saves = 0
            /\ students = pre.students
            /\ file = pre.file)

\* a second add under a stored id, with other values than the stored ones
C5_Witness ==
    /\ pc = "returned"
    /\ call.op = "add_student"
    /\ call.result = "StudentAlreadyExistsError"
    /\ Accepted(call.args)
    /\ Normalized(call.args) # students[call.student_id]
    /\ file.kind = "json"
    /\ call.student_id \in DOMAIN file.data

\* C6 (for add, update and delete): with an id that does not match
\* ^[0-9]{6,20}$ the call fails with a validation error and the in-memory map
\* is unchanged.
C6_MalformedIdIsValidationError ==
    (/\ pc = "returned"
     /\ call.op \in {"add_student", "update_student", "delete_student"}
     /\ ~validate_student_id(call.student_id))
        => (call.result = "DataValidationError" /\ students = pre.students)


\* the value a keyword argument carries
KwValue(kw) == IF kw.field = "age" THEN kw.int ELSE kw.str

\* the value as a Record keeps it
KwStored(kw) == IF kw.field \in {"name", "class_name", "contact"} THEN Strip(kw.str) ELSE KwValue(kw)

Supplied(kwargs) == {i \in 1..Len(kwargs) : ~kwargs[i].none}

\* rec with every supplied field set to Value(kw), the other fields kept
WithFields(rec, kwargs, Value(_)) ==
    [fld \in StudentFields |->
        IF \E i \in Supplied(kwargs) : kwargs[i].field = fld
        THEN Value(kwargs[CHOOSE i \in Supplied(kwargs) : kwargs[i].field = fld])
        ELSE rec[fld]]

\* C7 as stated: after a successful update, getById(id) returns the new value
\* for each supplied field and the previous value for every other field; the
\* id and every other record are unchanged.
C7_UpdateSetsExact ==
    (pc = "returned" /\ call.op = "update_student" /\ call.result = "ok")
        => (/\ call.student_id \in DOMAIN pre.students
            /\ students = [pre.students EXCEPT ![call.student_id] =
                              WithFields(pre.students[call.student_id], call.kwargs, KwValue)]
            /\ GetNow(call.student_id).found = <<students[call.student_id]>>)

\* C7 amended: ... the new value, with surrounding whitespace removed from a
\* name, class_name or contact, for each supplied field ...
C7_UpdateSetsNormalized ==
    (pc = "returned" /\ call.op = "update_student" /\ call.result = "ok")
        => (/\ call.student_id \in DOMAIN pre.students
            /\ students = [pre.students EXCEPT ![call.student_id] =
                              WithFields(pre.students[call.student_id], call.kwargs, KwStored)]
            /\ GetNow(call.student_id).found = <<students[call.student_id]>>)

\* an update of two fields, one of them padded, among two records
C7_Witness ==
    /\ pc = "returned"
    /\ call.op = "update_student"
    /\ call.result = "ok"
    /\ Cardinality(Supplied(call.kwargs)) = 2
    /\ \E i \in Supplied(call.kwargs) : KwStored(call.kwargs[i]) # KwValue(call.kwargs[i])
    /\ students[call.student_id] # pre.students[call.student_id]
    /\ Cardinality(DOMAIN students) > 1

\* C8: a successful delete(id) of an id in the map removes exactly that record:
\* count() is one less, getById(id) fails with StudentNotFound, every other
\* record is unchanged.
C8_DeleteRemovesExactlyOne ==
    (pc = "returned" /\ call.op = "delete_student" /\ call.result = "ok")
        => (/\ call.student_id \in DOMAIN pre.students
            /\ Cardinality(DOMAIN students) = Cardinality(DOMAIN pre.students) - 1
            /\ GetNow(call.student_id).result = "StudentNotFoundError"
            /\ DOMAIN students = DOMAIN pre.students \ {call.student_id}
            /\ \A k \in DOMAIN students : students[k] = pre.students[k])

\* one of several records was deleted
C8_Witness ==
    /\ pc = "returned"
    /\ call.op = "delete_student"
    /\ call.result = "ok"
    /\ Cardinality(DOMAIN pre.students) > 1
    /\ call.student_id \notin DOMAIN students

\* C9: update, delete and getById with a well-formed id that is not in the map
\* fail with StudentNotFound, without a save and with the in-memory map and the
\* data file unchanged.
C9_AbsentIdIsNotFound ==
    (/\ pc = "returned"
     /\ call.op \in {"update_student", "delete_student", "get_student_by_id"}
     /\ validate_student_id(call.student_id)
     /\ call.student_id \notin DOMAIN pre.students)
        => (/\ call.result = "StudentNotFoundError"
            /\ call.saves = 0
            /\ students = pre.students
            /\ file = pre.file)

\* a delete of an absent id from a map that holds another record
C9_Witness ==
    /\ pc = "returned"
    /\ call.op = "delete_student"
    /\ call.result = "StudentNotFoundError"
    /\ validate_student_id(call.student_id)
    /\ students # EmptyMap
    /\ file.kind = "json"

\* C10: batchDelete(ids), whatever the list (repeated, malformed, absent ids),
\* removes exactly the records whose id is well-formed and present, leaves the
\* others unchanged, persists the result by one save and returns the number of
\* records removed.  Stated for the calls in which no save failed.
C10_BatchDeleteRemovesDeletable ==
    (/\ pc = "returned"
     /\ call.op = "delete_students_by_ids"
     /\ call.outcome \notin SaveFailures)
        => LET D == {k \in DOMAIN pre.students :
                        /\ _validate_student_id(k)
                        /\ \E i \in 1..Len(call.ids) : call.ids[i] = k}
           IN  /\ call.result \in {"ok", "nothing"}
               /\ students = [k \in DOMAIN pre.students \ D |-> pre.students[k]]
               /\ call.count = Cardinality(D)
               /\ call.saves = (IF D = {} THEN 0 ELSE 1)
               /\ D # {} => DiskEqualsMemory


\* the keys of the records of a class in a map
Members(st, class_name) == {k \in DOMAIN st : st[k].class_name = class_name}

\* C11: in any reachable state, a successful deleteByClass(name) for a class
\* that has members removes exactly the records whose class_name is name,
\* returns their number, and afterwards countInClass(name) is 0 while the
\* records of other classes are unchanged.
C11_DeleteByClassRemovesTheClass ==
    (/\ pc = "returned"
     /\ call.op = "delete_students_by_class"
     /\ call.result = "ok"
     /\ Members(pre.students, call.class_name) # {})
        => (/\ students = [k \in DOMAIN pre.students
                                 \ Members(pre.students, call.class_name) |->
                              pre.students[k]]
            /\ call.count = Cardinality(Members(pre.students, call.class_name))
            /\ get_class_student_count(students, call.class_name) = 0)


\* the ids of a list that batchDelete takes for deletable in a map
DeletableIds(st, ids) ==
    {k \in DOMAIN st : _validate_student_id(k) /\ \E i \in 1..Len(ids) : ids[i] = k}

\* C12: when batchDelete's deletable set is empty, or deleteByClass names a
\* class without members, the call returns (0, message), makes no save and
\* leaves the in-memory map and the data file unchanged.
C12_NothingToDeleteChangesNothing ==
    (/\ pc = "returned"
     /\ \/ /\ call.op = "delete_students_by_ids"
           /\ DeletableIds(pre.students, call.ids) = {}
        \/ /\ call.op = "delete_students_by_class"
           /\ call.class_name # <<>>
           /\ Members(pre.students, call.class_name) = {})
        => (/\ call.result = "nothing"
            /\ call.count = 0
            /\ call.saves = 0
            /\ students = pre.students
            /\ file = pre.file)

\* a batchDelete of a malformed and an absent id on a map that holds records
C12_Witness ==
    /\ pc = "returned"
    /\ call.op = "delete_students_by_ids"
    /\ Len(call.ids) = 2
    /\ ~_validate_student_id(call.ids[1])
    /\ validate_student_id(call.ids[2])
    /\ call.result = "nothing"
    /\ students # EmptyMap
    /\ file.kind = "json"


\* C13: when the save fails during add, update, delete, batchDelete or
\* deleteByClass, the error that reaches the caller is DataIOError.
C13_SaveFailureIsDataIOError ==
    (/\ pc = "returned"
     /\ call.op \in Mutating
     /\ call.saves > 0
     /\ call.outcome \in SaveFailures)
        => call.result = "DataIOError"


\* an import file whose every entry is a record as add writes it: stored under
\* its id, accepted by the field rules, without surrounding whitespace
CleanImport(imp) ==
    /\ imp.kind = "json"
    /\ \A k \in DOMAIN imp.data :
           /\ imp.data[k].student_id = k
           /\ Accepted(imp.data[k])
           /\ Normalized(imp.data[k]) = imp.data[k]

\* C14: after importFrom(path, overwrite) has returned or raised, the in-memory
\* map equals the dataset on disk.  Stated for the imports of well-formed
\* records that start with memory equal to disk and in which no write fails.
C14_ImportLeavesMemoryEqualDisk ==
    (/\ pc = "returned"
     /\ call.op = "import_data"
     /\ CleanImport(call.import_file)
     /\ call.outcome \notin SaveFailures
     /\ pre.file.kind \in {"json", "absent"}
     /\ DOMAIN pre.file.data = DOMAIN pre.students
     /\ \A k \in DOMAIN pre.students : to_dict(pre.students[k]) = pre.file.data[k])
        => DiskEqualsMemory


\* the dataset a merge of an imported dataset into a stored one gives: the
\* entries of both, the imported one where both have the key
Merged(stored, imported) ==
    [k \in DOMAIN stored \cup DOMAIN imported |->
        IF k \in DOMAIN imported THEN imported[k] ELSE stored[k]]

\* C15: an import with overwrite=false leaves as the persisted dataset the
\* stored entries and the imported ones, with the imported value where both
\* have the id ({A,B} and {B,C} give {A, B imported, C}); with overwrite=true
\* the persisted dataset is exactly the imported one.
C15_ImportMergesOrReplaces ==
    (/\ pc = "returned"
     /\ call.op = "import_data"
     /\ call.import_file.kind = "json"
     /\ call.outcome = "ok")
        => (/\ file.kind = "json"
            /\ file.data = IF call.overwrite
                           THEN call.import_file.data
                           ELSE Merged(pre.file.data, call.import_file.data))

\* a merge of {B, C} into {A, B}, B with another value than the stored one
C15_Witness ==
    /\ pc = "returned"
    /\ call.op = "import_data"
    /\ ~call.overwrite
    /\ call.outcome = "ok"
    /\ Cardinality(DOMAIN pre.file.data) = 2
    /\ Cardinality(DOMAIN call.import_file.data) = 2
    /\ \E a, b \in DOMAIN pre.file.data : \E c \in DOMAIN call.import_file.data :
           /\ a \notin DOMAIN call.import_file.data
           /\ b \in DOMAIN call.import_file.data
           /\ c \notin DOMAIN pre.file.data
           /\ pre.file.data[b] # call.import_file.data[b]
           /\ file.data[a] = pre.file.data[a]
           /\ file.data[b] = call.import_file.data[b]
           /\ file.data[c] = call.import_file.data[c]
    /\ Cardinality(DOMAIN file.data) = 3


\* C16: an import whose file is absent or zero-length fails with
\* EmptyDataError, one whose file is malformed JSON or JSON that is not a
\* key-to-value mapping fails with DataIOError, and both leave the persisted
\* dataset unchanged.  The error is the Persistence Store's; it is also what
\* the Record Manager's caller gets whenever the data file can be loaded.
C16_RejectedImportLeavesFile ==
    (/\ pc = "returned"
     /\ call.op = "import_data"
     /\ call.import_file.kind # "json")
        => LET expected == IF call.import_file.kind \in {"absent", "empty"}
                           THEN "EmptyDataError" ELSE "DataIOError"
           IN  /\ file = pre.file
               /\ call.saves = 0
               /\ \A ow \in BOOLEAN : \A o \in SaveOutcomes :
                      dm_import_data(pre.file, call.import_file, ow, o).result = expected
               /\ load_data(pre.file).ok => call.result = expected

\* an overwriting import of a JSON array over a stored dataset
C16_Witness ==
    /\ pc = "returned"
    /\ call.op = "import_data"
    /\ call.import_file.kind = "array"
    /\ call.overwrite
    /\ call.result = "DataIOError"
    /\ file.kind = "json"
    /\ file.data # EmptyMap


\* C17: backup followed later by restore(backup) restores the exact dataset the
\* data file held at backup time, whatever happened in between and however
\* little time has passed.  Stated for the restores that return normally, of a
\* backup file that still holds what backup_data copied into it, over a data
\* file that holds a dataset.
C17_RestoreGivesBackedUpDataset ==
    (/\ pc = "returned"
     /\ call.op = "restore_data"
     /\ call.result = "ok"
     /\ pre.file.kind = "json"
     /\ call.backup_file \in DOMAIN pre.taken
     /\ Content(pre.backups[call.backup_file]) = pre.taken[call.backup_file])
        => file = pre.taken[call.backup_file]


\* C18: once backup has returned a path, no later operation (save, backup,
\* restore, clear, import, export) changes what is stored at that path, and
\* only cleanupOldBackups makes it disappear.  Stated for the calls in which no
\* write and no copy fails.
C18_BackupNeverChanges ==
    (/\ pc = "returned"
     /\ call.op # "none"
     /\ call.outcome \notin SaveFailures
     /\ call.outcome_backup \notin SaveFailures)
        => \A p \in DOMAIN pre.taken :
               Content(pre.backups[p]) = pre.taken[p]
                   => (/\ call.op # "cleanup_old_backups" => p \in DOMAIN backups
                       /\ p \in DOMAIN backups => Content(backups[p]) = pre.taken[p])


\* restore's checks of the backup file have passed
RestoreBegun ==
    /\ call.backup_file \in DOMAIN pre.backups
    /\ pre.backups[call.backup_file].kind # "empty"

\* C19: whenever restore overwrites the data file, a backup artifact holding
\* what the data file held immediately before exists afterwards (the one of the
\* second of the call); and if that backup cannot be made (no data file, a
\* zero-length one, or the copy fails), restore fails and the data file is left
\* as it was.
C19_RestoreKeepsPreRestoreBackup ==
    (pc = "returned" /\ call.op = "restore_data")
        => (/\ (call.result = "ok" \/ file # pre.file)
                   => (/\ clock \in DOMAIN backups
                       /\ Content(backups[clock]) = pre.file)
            /\ (RestoreBegun /\ (\/ pre.file.kind \in {"absent", "empty"}
                                 \/ call.outcome_backup # "ok"))
                   => (/\ call.result \in {"EmptyDataError", "BackupRestoreError"}
                       /\ file = pre.file
                       /\ mtime = pre.mtime))

\* a restore, in a later second, of a backup that differs from the data file
C19_Witness ==
    /\ pc = "returned"
    /\ call.op = "restore_data"
    /\ call.result = "ok"
    /\ call.backup_file # clock
    /\ file # pre.file
    /\ file = Content(backups[call.backup_file])
    /\ Content(backups[clock]) = pre.file


\* C20: restore fails with EmptyDataError only when the backup file itself is
\* absent or zero-length; every failure after these checks have passed is a
\* BackupRestoreError.
C20_RestoreFailureKinds ==
    (/\ pc = "returned"
     /\ call.op = "restore_data"
     /\ call.result # "ok")
        => (/\ call.result = "EmptyDataError" => ~RestoreBegun
            /\ RestoreBegun => call.result = "BackupRestoreError")


\* C21: whenever clear removes an existing, non-empty data file, a backup file
\* holding what the data file held immediately before the removal exists
\* afterwards.
C21_ClearLeavesBackup ==
    (/\ pc = "returned"
     /\ call.op = "clear_data"
     /\ pre.file.kind \notin {"absent", "empty"}
     /\ file.kind = "absent")
        => \E p \in DOMAIN backups : Content(backups[p]) = pre.file


\* C22: for a valid dataset D (a map from id to the six fields of a record), a
\* successful save(D) followed by load() returns a map equal to D key by key
\* and field by field.
C22_SaveThenLoad ==
    (pc = "returned" /\ call.op = "save_data" /\ call.result = "ok")
        => (/\ load_data(file).ok
            /\ DOMAIN load_data(file).data = DOMAIN call.dataset
            /\ \A k \in DOMAIN call.dataset :
                   DOMAIN load_data(file).data[k] = StudentFields
            /\ \A k \in DOMAIN call.dataset : \A fld \in StudentFields :
                   load_data(file).data[k][fld] = call.dataset[k][fld])

\* a dataset saved over a file that held records under other ids
C22_Witness ==
    /\ pc = "returned"
    /\ call.op = "save_data"
    /\ call.result = "ok"
    /\ pre.file.kind = "json"
    /\ DOMAIN pre.file.data \ DOMAIN call.dataset # {}
    /\ load_data(file).data = call.dataset


\* C23: if save fails with DataIOError, the data file still holds the complete
\* dataset it held before the call, never a truncated or partly written file.
C23_FailedSaveLeavesFile ==
    (/\ pc = "returned"
     /\ call.op = "save_data"
     /\ call.result = "DataIOError"
     /\ pre.file.kind = "json")
        => file = pre.file


\* C24: after any sequence of successful add, update and delete operations on
\* one Record Manager, a new Record Manager constructed over the same store
\* holds exactly the same records: the same ids with the same field values.
C24_NewManagerHoldsSame ==
    /\ NewManager(file).ok
    /\ DOMAIN NewManager(file).students = DOMAIN students
    /\ \A k \in DOMAIN students : \A fld \in StudentFields :
           NewManager(file).students[k][fld] = students[k][fld]

\* an update has succeeded on a manager of two records that was constructed
\* over a file with other entries than the map it loaded
C24_Witness ==
    /\ pc = "returned"
    /\ call.op = "update_student"
    /\ call.result = "ok"
    /\ Cardinality(DOMAIN students) = 2
    /\ pre.file.data # file.data
    /\ \E k \in DOMAIN students : students[k].student_id # k
    /\ NewManager(file).students = students


\* C25: in every reachable state of the Record Manager, also right after the
\* load at construction and after importFrom, no two Records of the in-memory
\* map have the same id.
C25_NoTwoRecordsWithOneId ==
    \A j, k \in DOMAIN students :
        students[j].student_id = students[k].student_id => j = k


\* the field rules of a Record as the specification words them
IdRule(v) == Len(v) >= 6 /\ Len(v) <= 20 /\ AllIn(v, Digits)

\* all Han characters, or Latin words with one space between two words
NameRule(v) ==
    /\ Len(v) >= 2
    /\ Len(v) <= 10
    /\ \/ AllIn(v, Han)
       \/ /\ AllIn(v, Letters \cup {" "})
          /\ v[1] \in Letters
          /\ v[Len(v)] \in Letters
          /\ \A i \in 1..(Len(v) - 1) : ~(v[i] = " " /\ v[i + 1] = " ")

GenderRule(v) == v \in {"nan", "nv"}

AgeRule(v) == v \in 15..49

ClassNameRule(v) ==
    /\ Len(v) >= 1
    /\ Len(v) <= 20
    /\ AllIn(v, Han \cup Letters \cup Digits \cup {" ", "-", "_"})

\* a phone number or an e-mail address, the whole value
ContactRule(v) ==
    /\ Len(v) <= 50
    /\ AllIn(v, Letters \cup Digits \cup {".", "_", "%", "+", "-", "@"})
    /\ (MatchPhone(v) \/ MatchEmail(v))

FieldRules(rec) ==
    /\ IdRule(rec.student_id)
    /\ NameRule(rec.name)
    /\ GenderRule(rec.gender)
    /\ AgeRule(rec.age)
    /\ ClassNameRule(rec.class_name)
    /\ ContactRule(rec.contact)

\* C26: in every reachable state, every Record of the in-memory map satisfies
\* the six field rules (an id of 6 to 20 digits, the name rule, one of the two
\* genders, 15 <= age <= 49, the class_name rule, the contact rule).
C26_RecordsSatisfyFieldRules ==
    \A k \in DOMAIN students : FieldRules(students[k])


\* the record with one field set to a value, the other fields kept
WithField(rec, field, value) == [rec EXCEPT ![field] = value]

\* C27 as stated: assigning to name, gender, age, class_name or contact a value
\* its validator rejects raises the validation error and leaves every field of
\* the Record at its previous value; assigning an accepted value makes the
\* getter return the new value.
C27_SetterSetsExact ==
    (pc = "returned" /\ call.op = "setattr")
        => IF validate_field(call.kw.field, KwValue(call.kw))
           THEN /\ call.result = "ok"
                /\ record = <<WithField(pre.record[1], call.kw.field, KwValue(call.kw))>>
           ELSE /\ call.result = "DataValidationError"
                /\ record = pre.record

\* C27 amended: ... assigning an accepted value makes the getter return the
\* new value, with surrounding whitespace removed from a name, class_name or
\* contact.
C27_SetterSetsNormalized ==
    (pc = "returned" /\ call.op = "setattr")
        => IF validate_field(call.kw.field, KwValue(call.kw))
           THEN /\ call.result = "ok"
                /\ record = <<WithField(pre.record[1], call.kw.field, KwStored(call.kw))>>
           ELSE /\ call.result = "DataValidationError"
                /\ record = pre.record

\* a padded name was assigned to a Student that had another name
C27_Witness ==
    /\ pc = "returned"
    /\ call.op = "setattr"
    /\ call.result = "ok"
    /\ KwStored(call.kw) # KwValue(call.kw)
    /\ record # pre.record
    /\ record[1][call.kw.field] = KwStored(call.kw)


\* a mapping holds a value that violates its field rule; name, class_name and
\* contact are judged with surrounding whitespace removed
ViolatesARule(data) == ~FieldRules(Normalized(data))

\* C28: for every valid Record r, deserializing the serialization of r yields
\* a Record whose six fields equal those of r; deserializing a mapping that
\* lacks a field or holds a value violating a rule fails with a validation
\* error and yields no Record.
C28_DictRoundTrip ==
    (pc = "returned" /\ call.op = "from_dict")
        => (/\ (pre.record # NoRecord /\ call.data = to_dict(pre.record[1]))
                   => (call.result = "ok" /\ record = pre.record)
            /\ (\/ ~(StudentFields \subseteq DOMAIN call.data)
                \/ ViolatesARule(call.data))
                   => (call.result = "DataValidationError" /\ record = pre.record))


\* C29: for any dataset, searchByName("") and searchByClass("") return an
\* empty result without raising, never the whole dataset.
C29_EmptyQueryFindsNothing ==
    (/\ pc = "returned"
     /\ \/ call.op = "search_students_by_name" /\ call.args.name = <<>>
        \/ call.op = "search_students_by_class" /\ call.class_name = <<>>)
        => (/\ call.result = "ok"
            /\ call.found = <<>>
            /\ students = pre.students
            /\ file = pre.file)

\* a search by name for "" in a map of two records
C29_Witness ==
    /\ pc = "returned"
    /\ call.op = "search_students_by_name"
    /\ call.args.name = <<>>
    /\ Cardinality(DOMAIN students) = 2
    /\ call.found = <<>>


\* two characters that are equal when case is not looked at
SameLetter(a, b) ==
    a = b \/ \E n \in 1..Len(UpperSeq) : {a, b} = {UpperSeq[n], LowerSeq[n]}

\* q is in s at some place, case not looked at
ContainsAnyCase(q, s) ==
    \E i \in 0..(Len(s) - Len(q)) : \A j \in 1..Len(q) : SameLetter(q[j], s[i + j])

\* C30: for a non-empty query q, searchByName(q) returns exactly the records of
\* the in-memory map whose name contains q as a substring, both compared
\* case-insensitively: each such record once and no other record.
C30_SearchByNameFindsMatches ==
    (/\ pc = "returned"
     /\ call.op = "search_students_by_name"
     /\ call.args.name # <<>>)
        => LET q == call.args.name
               hits == {k \in DOMAIN students : ContainsAnyCase(q, students[k].name)}
           IN  /\ call.result = "ok"
               /\ Len(call.found) = Cardinality(hits)
               /\ \A k \in hits :
                      Cardinality({i \in 1..Len(call.found) : call.found[i] = students[k]})
                          = Cardinality({j \in hits : students[j] = students[k]})
               /\ \A i \in 1..Len(call.found) :
                      \E k \in hits : call.found[i] = students[k]
               /\ students = pre.students

\* a query in capitals found one of two records, whose name has it in small
\* letters
C30_Witness ==
    /\ pc = "returned"
    /\ call.op = "search_students_by_name"
    /\ call.args.name = <<"A", "B">>
    /\ Cardinality(DOMAIN students) = 2
    /\ Len(call.found) = 1
    /\ call.found[1].name = <<"a", "b">>

\* the name is students_backup_<something>.json, the form of the names that
\* backup_data writes and that the tests of the repository give to backups
FollowsBackupNaming(n) ==
    /\ Len(n) >= Len(BackupPrefix) + Len(BackupSuffix)
    /\ \A i \in 1..Len(BackupPrefix) : n[i] = BackupPrefix[i]
    /\ \A i \in 1..Len(BackupSuffix) :
           n[Len(n) - Len(BackupSuffix) + i] = BackupSuffix[i]

\* C31: a cleanup_old_backups(dir, keep_days) call in which no removal fails
\* removes every file of dir named as a backup whose modification time is
\* before now - keep_days days and returns their number, leaves every other
\* file named as a backup as it was; and no cleanup_old_backups call, failed or
\* not, removes or changes a file that is not named as a backup.
C31_CleanupRemovesOldBackupsOnly ==
    (pc = "returned" /\ call.op = "cleanup_old_backups")
        => LET cutoff == clock - call.keep_days * DaySeconds
               oldB == {p \in DOMAIN pre.backups : pre.backups[p].mtime < cutoff}
               oldS == {n \in DOMAIN pre.strangers :
                            FollowsBackupNaming(n) /\ pre.strangers[n].mtime < cutoff}
           IN  /\ \A n \in DOMAIN pre.strangers :
                      ~FollowsBackupNaming(n)
                          => n \in DOMAIN strangers /\ strangers[n] = pre.strangers[n]
               /\ DOMAIN backups \subseteq DOMAIN pre.backups
               /\ DOMAIN strangers \subseteq DOMAIN pre.strangers
               /\ call.outcome = "ok"
                      => /\ DOMAIN backups = DOMAIN pre.backups \ oldB
                         /\ \A p \in DOMAIN backups : backups[p] = pre.backups[p]
                         /\ DOMAIN strangers = DOMAIN pre.strangers \ oldS
                         /\ \A n \in DOMAIN strangers : strangers[n] = pre.strangers[n]
                         /\ call.count = Cardinality(oldB) + Cardinality(oldS)

\* a cleanup that removed an old backup of the store, kept a file named as a
\* backup that is younger than the window, and kept an old file of another name
C31_Witness ==
    /\ pc = "returned" /\ call.op = "cleanup_old_backups" /\ call.outcome = "ok"
    /\ call.count > 0
    /\ \E p \in DOMAIN pre.backups : p \notin DOMAIN backups
    /\ \E n \in DOMAIN strangers :
           /\ FollowsBackupNaming(n)
           /\ strangers[n].mtime >= clock - call.keep_days * DaySeconds
    /\ \E n \in DOMAIN strangers :
           /\ ~FollowsBackupNaming(n)
           /\ strangers[n].mtime < clock - call.keep_days * DaySeconds

\* C32: an export_data(export_file) of the manager that succeeds leaves at
\* export_file the dataset that load_data reads from the data file (the empty
\* dataset when there is no data file), whatever was at export_file before, has
\* made the directory of export_file when it was missing, and leaves the data
\* file and the map of the manager as they were.
C32_ExportWritesPersisted ==
    (pc = "returned" /\ call.op = "export_data" /\ call.result = "ok")
        => /\ call.export.target.kind = "json"
           /\ load_data(pre.file).ok
           /\ call.export.target.data = load_data(pre.file).data
           /\ call.export.parent = "missing" => call.export.made
           /\ file = pre.file
           /\ students = pre.students

\* a successful export into a missing directory while the data file holds an
\* entry that the manager does not hold
C32_Witness ==
    /\ pc = "returned" /\ call.op = "export_data" /\ call.result = "ok"
    /\ call.export.parent = "missing" /\ call.export.made
    /\ DOMAIN call.export.target.data # {}
    /\ DOMAIN students # DOMAIN file.data

\* C33: whenever there is no data file, before the first save and after a
\* clear_data, load_data returns the empty dataset without raising, and a
\* manager constructed then holds no Student: get_student_count() is 0.
C33_AbsentFileLoadsEmpty ==
    file.kind = "absent"
        => /\ load_data(file).ok
           /\ load_data(file).data = EmptyMap
           /\ NewManager(file).ok
           /\ get_student_count(NewManager(file).students) = 0

\* a clear_data that removed a data file with entries in it
C33_Witness ==
    /\ pc = "returned" /\ call.op = "clear_data" /\ call.result = "ok"
    /\ pre.file.kind = "json" /\ DOMAIN pre.file.data # {}
    /\ file.kind = "absent"

\* the fields of the call are all recognized and every value that is not None
\* passes the validator of its field
AllValid(kwargs) ==
    \A i \in 1..Len(kwargs) :
        /\ kwargs[i].field \in AllowedFields
        /\ ~kwargs[i].none => validate_field(kwargs[i].field, KwValue(kwargs[i]))

\* C34: an update_student call for a record of the map whose fields are
\* recognized and valid, at least one of them not None, invokes the save, also
\* when the values are the stored ones; a call whose fields are all None
\* invokes no save, changes neither the map nor the file and reports that there
\* is nothing to update.
C34_UpdateSavesUnlessAllNone ==
    (/\ pc = "returned" /\ call.op = "update_student"
     /\ call.student_id \in DOMAIN pre.students
     /\ AllValid(call.kwargs))
        => /\ Supplied(call.kwargs) # {} => call.saves = 1
           /\ Supplied(call.kwargs) = {}
                  => /\ call.saves = 0
                     /\ call.result = "nothing"
                     /\ students = pre.students
                     /\ file = pre.file

\* C35: an export_data call in the json format that fails, because load_data
\* cannot read the data file or because the export file cannot be written,
\* raises DataIOError.
C35_FailedExportRaisesDataIOError ==
    (/\ pc = "returned" /\ call.op = "export_data" /\ call.format = "json"
     /\ call.result # "ok")
        => call.result = "DataIOError"

\* C36: in every reachable state of the manager, after the load of the
\* construction and after import_data as well, each Student of the map is
\* stored under the key that is its student_id, and get_student_by_id(k)
\* returns for every key k of the map a Student whose student_id is k.
C36_KeysAreIds ==
    \A k \in DOMAIN students :
        /\ students[k].student_id = k
        /\ get_student_by_id(students, file, k).result = "ok"
        /\ get_student_by_id(students, file, k).found = <<students[k]>>

\* the id a call is for
Target(c) == IF c.op = "add_student" THEN c.args.student_id ELSE c.student_id

\* C37: a successful add_student, update_student or delete_student changes in
\* the data file only the entry of its id: every other entry that was in the
\* data file before the call, also one that the manager could not load as a
\* Student, is in the data file after the call with the same content.
C37_OtherEntriesStay ==
    (/\ pc = "returned"
     /\ call.op \in {"add_student", "update_student", "delete_student"}
     /\ call.result = "ok")
        => \A k \in DOMAIN pre.file.data \ {Target(call)} :
               k \in DOMAIN file.data /\ file.data[k] = pre.file.data[k]

\* the calls that only read the map
Readers ==
    {"get_student_by_id", "search_students_by_name", "search_students_by_class",
     "get_all_students", "get_student_count", "get_class_list",
     "get_class_student_count"}

\* C38: get_student_by_id, search_students_by_name, search_students_by_class,
\* get_all_students, get_student_count, get_class_list and
\* get_class_student_count invoke neither the load nor the save and leave the
\* map and the data file as they were, whether they return or raise.
C38_ReadersChangeNothing ==
    (pc = "returned" /\ call.op \in Readers)
        => /\ call.saves = 0
           /\ call.loads = 0
           /\ students = pre.students
           /\ file = pre.file

\* a get_student_by_id that raised and a search that found something, each
\* over a map with records in it
C38_Witness ==
    /\ pc = "returned"
    /\ DOMAIN students # {}
    /\ \/ call.op = "get_student_by_id" /\ call.result = "StudentNotFoundError"
       \/ call.op = "search_students_by_class" /\ call.count > 0

\* the sum of get_class_student_count over the first n names of a class list
RECURSIVE SumOfClassCounts(_, _, _)
SumOfClassCounts(st, class_list, n) ==
    IF n = 0 THEN 0
    ELSE get_class_student_count(st, class_list[n])
             + SumOfClassCounts(st, class_list, n - 1)

\* C39: in every reachable state get_class_list() holds each class name of the
\* map exactly once, get_class_student_count(c) is for every c of the list the
\* number of Students that search_students_by_class(c) returns, and the counts
\* of the classes of the list add up to get_student_count().
C39_ClassListAndCountsAgree ==
    LET class_list == get_class_list(students)
        names == {students[k].class_name : k \in DOMAIN students}
    IN  /\ {class_list[i] : i \in 1..Len(class_list)} = names
        /\ \A i, j \in 1..Len(class_list) : class_list[i] = class_list[j] => i = j
        /\ \A i \in 1..Len(class_list) :
               /\ search_students_by_class(students, file, class_list[i]).result = "ok"
               /\ get_class_student_count(students, class_list[i])
                      = Len(search_students_by_class(students, file, class_list[i]).found)
        /\ SumOfClassCounts(students, class_list, Len(class_list))
               = get_student_count(students)

\* two classes in the map, one of them with two records
C39_Witness ==
    /\ Len(get_class_list(students)) = 2
    /\ get_student_count(students) = 3
    /\ \E k \in DOMAIN students :
           get_class_student_count(students, students[k].class_name) = 2

=============================================================================
